---- MODULE Spec2Model ----
(***************************************************************************)
(* Model of the mediation pipeline of the SQL proxy backend:               *)
(*   app/services/cache.py          CacheService (get / set with TTL)      *)
(*   app/services/rate_limiter.py   RateLimiterService                     *)
(*   app/services/query_analyzer.py QueryAnalyzer                          *)
(*   app/services/sql_proxy.py      SQLProxyService.execute_query          *)
(*   app/services/audit.py          AuditService.log_event                 *)
(*   app/api/proxy.py               POST /execute                          *)
(* The services are modelled as they are after their initialize().         *)
(* Time is counted in seconds.  The request budgets and durations of the   *)
(* rate-limit rules and the cache TTL are scaled down (see the bounds).    *)
(*                                                                         *)
(* The specifications share the definitions:                               *)
(*   SpecRL      check_rate_limit alone, called by any caller;             *)
(*   SpecRLFault the same while the store goes down and comes back;        *)
(*   SpecRLFine  the same for several rule types and roles, on a clock     *)
(*               that also stops between the minutes;                      *)
(*   SpecRLConc  _check_sliding_window in several worker processes;        *)
(*   Spec        execute_query, called by any caller, with the cache store *)
(*               going down and up and the administrator changing tables;  *)
(*   SpecApi     POST /execute in front of execute_query;                  *)
(*   SpecPool    concurrent requests, _get_connection_pool, rotation of a  *)
(*               backend's row and _monitor_connections;                   *)
(*   SpecAudit   log_event and _audit_worker (SpecAuditFair: the worker    *)
(*               is scheduled fairly);                                     *)
(*   SpecAnalyzer analyze_query over the tokens of the query text, for     *)
(*               every role, environment and variation of a few queries;   *)
(*   SpecRLSweep check_rate_limit with initialize() and the passes of the  *)
(*               cleanup task, which is scheduled fairly;                  *)
(*   SpecMulti   execute_query for two users, with the cancel endpoint of  *)
(*               app/api/proxy.py called at any point;                     *)
(*   SpecConn    _execute_with_pool statement by statement, under the      *)
(*               wait_for of _execute_query_on_server.                     *)
(*                                                                         *)
(* execute_query is modelled over the analysis dict it reads.  The queries *)
(* of the model are named by that dict: "sel", "upd" and "inj" carry       *)
(* metadata.query_hash, which execute_query reads at line 120; "nometa" is *)
(* the dict as analyze_query leaves it once                                *)
(* analysis_results.update(performance_analysis) has replaced metadata.    *)
(* One request is served at a time; the clock, the store and the tables    *)
(* may change between the steps of a request where execute_query awaits.   *)
(***************************************************************************)
EXTENDS Integers, Sequences, FiniteSets, TLC

(***************************************************************************)
(* Bounds of the model.                                                    *)
(***************************************************************************)
MaxTime == 120          \* the clock stops here
TickSeconds == 60       \* one step of the clock
MaxViolations == 6      \* no further check once an identifier has this many violations
BaseRequests == 1       \* requests of the scaled "query" / "auth" rules
BaseWindow == 120       \* window_seconds of the scaled one-hour rules
BaseBlock == 60         \* block_duration_seconds of the scaled default
MaxCalls == 2           \* execute_query calls explored by Spec
MaxDenials == 1         \* no further POST /execute once a user has this many violations
CacheTTL == 90          \* the scaled settings.QUERY_CACHE_TTL
MaxEvents == 4          \* events recorded in SpecAudit
MaxPools == 2           \* engines created in SpecPool
MaxAdmits == 4          \* no further check once an identifier has this many admitted in a window
FineTickSeconds == 30   \* one step of the clock of SpecRLFine

(***************************************************************************)
(* Program constants.                                                      *)
(***************************************************************************)
SecondsPerMinute == 60      \* now.replace(second=0, microsecond=0)
WindowSlack == 60           \* ttl = rule.window_seconds + 60
ViolationTTL == 3600        \* ttl of the violations counter
ViolationThreshold == 5     \* if violations >= 5
\* retry_after of a blocked identity: 300 in the source, as long as the default
\* block_duration_seconds and scaled with it
BlockedRetryAfter == BaseBlock
QUERY_TIMEOUT == 300        \* settings.QUERY_TIMEOUT
MAX_RESULT_ROWS == 10000    \* settings.MAX_RESULT_ROWS
MaxCacheBytes == 10485760   \* 10 * 1024 * 1024
RapidActionLimit == 10      \* if current_count >= 10
RapidActionTTL == 300       \* ttl of the rapid_actions counter
AuditQueueMaxsize == 0      \* asyncio.Queue(): maxsize 0, no limit
AlertThreshold == 80        \* audit_data["risk_score"] > 80
MaxRiskScore == 100         \* min(risk_score, 100)
MaxRecentIps == 5           \* len(recent_ips) < 5, recent_ips[-5:]
UserIpsTTL == 86400         \* ttl of the user_ips list

VARIABLES
    now,            \* datetime.utcnow() / time.time(), in seconds
    is_connected,   \* CacheService.is_connected (the store is reachable)
    store,          \* the Redis keyspace: key -> [val, exp]
    blocked_ips,    \* RateLimiterService.blocked_ips: ip -> block_until
    blocked_users,  \* RateLimiterService.blocked_users: user_id -> block_until
    rl_last,        \* the last check_rate_limit call and its RateLimitResult
    admits,         \* history: <<identifier, window>> -> (time -> admitted count)
    approval_required,  \* settings.QUERY_APPROVAL_REQUIRED
    servers,        \* table sql_server_connections: id -> row
    users,          \* table users: id -> row
    executions,     \* table query_executions: id -> row
    connection_pools,   \* SQLProxyService.connection_pools: pool key -> engine
    stats,          \* SQLProxyService.stats
    audit_queue,    \* AuditService.audit_queue
    req,            \* the request being served: position and locals
    resp,           \* the answer to the last request
    calls,          \* number of execute_query calls made (bounded)
    last_exec,      \* history: cache key -> last result executed on the backend
    rl_hist,        \* history: denials in a row per identifier, and the blocks set
    procs,          \* check_rate_limit calls in flight in the worker processes
    pool_reqs,      \* requests in flight between _get_connection_pool and execution
    pool_hist,      \* history: engines created per pool key, last health check
    worker,         \* AuditService._audit_worker: position and the entry in hand
    audit_hist,     \* history: events as enqueued and as handed to persistence
    analyzer,       \* QueryAnalyzer: the inputs of analyze_query and what it returned
    sweeper,        \* RateLimiterService._cleanup_expired_blocks: the task and its locals
    conns           \* the calls of _execute_with_pool: position, locals, the connection

rlvars == <<now, is_connected, store, blocked_ips, blocked_users,
            rl_last, admits, rl_hist>>
svcvars == <<approval_required, servers, users, executions, connection_pools,
             stats, audit_queue, req, resp, calls, last_exec>>
extvars == <<procs, pool_reqs, pool_hist, worker, audit_hist, analyzer, sweeper, conns>>
vars == <<rlvars, svcvars, extvars>>

None == "None"

Max(a, b) == IF a >= b THEN a ELSE b

\* dict helpers: a dict is a function whose DOMAIN is its key set
EmptyDict == << >>
DictPut(d, k, v) == [x \in DOMAIN d \cup {k} |-> IF x = k THEN v ELSE d[x]]
DictDel(d, k) == [x \in DOMAIN d \ {k} |-> d[x]]
DictGet(d, k, default) == IF k \in DOMAIN d THEN d[k] ELSE default

RECURSIVE SumValues(_)
SumValues(d) ==
    IF DOMAIN d = {} THEN 0
    ELSE LET k == CHOOSE x \in DOMAIN d : TRUE
         IN d[k] + SumValues(DictDel(d, k))

(***************************************************************************)
(* CacheService.get / set (cache.py).  A Redis key lives until its expiry; *)
(* Tick removes the keys whose expiry has been reached.  A failing Redis   *)
(* call is caught inside get / set and behaves like is_connected = False.  *)
(***************************************************************************)
\* a get that answers from the keyspace whether or not the store is reachable
CacheHas_stale(s, key) == key \in DOMAIN s /\ now < s[key].exp

CacheHas(s, key) == is_connected /\ key \in DOMAIN s /\ now < s[key].exp

CacheGet(s, key, default) ==
    IF CacheHas(s, key) THEN s[key].val ELSE default

CacheSet(s, key, value, ttl) ==
    IF is_connected
    THEN DictPut(s, key, [val |-> value, exp |-> now + ttl])
    ELSE s

Expire(s, t) == [k \in {x \in DOMAIN s : t < s[x].exp} |-> s[k]]

(***************************************************************************)
(* RateLimiterService (rate_limiter.py)                                    *)
(***************************************************************************)
RateLimitRule(requests, window_seconds, block_duration_seconds) ==
    [requests |-> requests, window_seconds |-> window_seconds,
     burst_num |-> 3, burst_den |-> 2,          \* burst_allowance = 1.5
     block_duration_seconds |-> block_duration_seconds]

\* _load_rate_limit_rules, with the budgets and durations scaled down
rules ==
    [default       |-> RateLimitRule(BaseRequests + 1, BaseWindow, BaseBlock),
     auth          |-> RateLimitRule(BaseRequests, BaseWindow \div 2, BaseWindow \div 2),
     query         |-> RateLimitRule(BaseRequests, BaseWindow, BaseBlock),
     api           |-> RateLimitRule(BaseRequests + 1, BaseWindow, BaseBlock),
     role_admin    |-> RateLimitRule(BaseRequests + 2, BaseWindow, BaseBlock),
     role_analyst  |-> RateLimitRule(BaseRequests + 1, BaseWindow, BaseBlock),
     role_powerbi  |-> RateLimitRule(BaseRequests + 1, BaseWindow, BaseBlock),
     role_readonly |-> RateLimitRule(BaseRequests, BaseWindow, BaseBlock)]

RoleRuleName(user_role) ==
    CASE user_role = "admin"    -> "role_admin"
      [] user_role = "analyst"  -> "role_analyst"
      [] user_role = "powerbi"  -> "role_powerbi"
      [] user_role = "readonly" -> "role_readonly"
      [] OTHER                  -> "role_"

\* a choice of the rule in which the rule type comes before the role
_get_rule_for_type_by_type(rule_type, user_role) ==
    IF rule_type \in DOMAIN rules THEN rules[rule_type]
    ELSE IF user_role # None /\ RoleRuleName(user_role) \in DOMAIN rules
    THEN rules[RoleRuleName(user_role)]
    ELSE rules["default"]

_get_rule_for_type(rule_type, user_role) ==
    IF user_role # None /\ RoleRuleName(user_role) \in DOMAIN rules
    THEN rules[RoleRuleName(user_role)]
    ELSE IF rule_type \in DOMAIN rules THEN rules[rule_type] ELSE rules["default"]

Minute(t) == t - (t % SecondsPerMinute)

BurstLimit(rule) == (rule.requests * rule.burst_num) \div rule.burst_den

WindowKey(identifier, rule) == <<"rate_limit", identifier, rule.window_seconds>>

\* the entries of window_data that survive "Clean old entries"
CleanedData(s, identifier, rule) ==
    LET window_data == CacheGet(s, WindowKey(identifier, rule), EmptyDict)
        window_start == now - rule.window_seconds
    IN [b \in {x \in DOMAIN window_data : x > window_start} |-> window_data[b]]

\* a denial test that refuses the last request of the budget
WindowDenies_early(total_requests, rule) ==
    total_requests + 1 >= rule.requests /\ total_requests + 1 >= BurstLimit(rule)

\* the denial test of _check_sliding_window
WindowDenies(total_requests, rule) ==
    total_requests >= rule.requests /\ total_requests >= BurstLimit(rule)

\* a _check_sliding_window that writes the cleaned window back on a denial
_check_sliding_window_rewrites(s, identifier, rule) ==
    LET cleaned_data == CleanedData(s, identifier, rule)
        total_requests == SumValues(cleaned_data)
        current_minute == Minute(now)
        added == DictPut(cleaned_data, current_minute,
                         DictGet(cleaned_data, current_minute, 0) + 1)
    IN [allowed |-> ~WindowDenies(total_requests, rule),
        remaining |-> IF WindowDenies(total_requests, rule) THEN 0
                      ELSE Max(0, rule.requests - SumValues(added)),
        reset_time |-> now + rule.window_seconds,
        retry_after |-> IF WindowDenies(total_requests, rule)
                        THEN rule.window_seconds ELSE 0,
        store |-> CacheSet(s, WindowKey(identifier, rule),
                           IF WindowDenies(total_requests, rule)
                           THEN cleaned_data ELSE added,
                           rule.window_seconds + WindowSlack)]

\* _check_sliding_window: the result and the store it leaves
_check_sliding_window(s, identifier, rule) ==
    LET cleaned_data == CleanedData(s, identifier, rule)
        total_requests == SumValues(cleaned_data)
        current_minute == Minute(now)
        added == DictPut(cleaned_data, current_minute,
                         DictGet(cleaned_data, current_minute, 0) + 1)
    IN IF WindowDenies(total_requests, rule)
       THEN [allowed |-> FALSE, remaining |-> 0,
             reset_time |-> now + rule.window_seconds,
             retry_after |-> rule.window_seconds, store |-> s]
       ELSE [allowed |-> TRUE,
             remaining |-> Max(0, rule.requests - SumValues(added)),
             reset_time |-> now + rule.window_seconds,
             retry_after |-> 0,
             store |-> CacheSet(s, WindowKey(identifier, rule), added,
                                rule.window_seconds + WindowSlack)]

\* a block test that still holds at the instant block_until
IsBlocked_late(mem, s, family, who) ==
    IF who \in DOMAIN mem /\ now <= mem[who]
    THEN [blocked |-> TRUE, mem |-> mem]
    ELSE [blocked |-> FALSE, mem |-> mem]

\* _is_ip_blocked / _is_user_blocked: the answer and the in-memory dict it leaves
IsBlocked(mem, s, family, who) ==
    IF who \in DOMAIN mem /\ now < mem[who]
    THEN [blocked |-> TRUE, mem |-> mem]
    ELSE LET mem1 == IF who \in DOMAIN mem THEN DictDel(mem, who) ELSE mem
             key == <<family, who>>
         IN IF CacheHas(s, key) /\ now < CacheGet(s, key, 0)
            THEN [blocked |-> TRUE, mem |-> DictPut(mem1, who, CacheGet(s, key, 0))]
            ELSE [blocked |-> FALSE, mem |-> mem1]

\* _handle_rate_limit_violation with _block_ip / _block_user
_handle_rate_limit_violation(s, bips, busers, identifier, ip_address, user_id, rule) ==
    LET violation_key == <<"violations", identifier>>
        violations == CacheGet(s, violation_key, 0) + 1
        s1 == CacheSet(s, violation_key, violations, ViolationTTL)
        block_until == now + rule.block_duration_seconds
        blockIp == violations >= ViolationThreshold /\ ip_address # None
        blockUser == violations >= ViolationThreshold /\ user_id # 0
        s2 == IF blockIp
              THEN CacheSet(s1, <<"blocked_ip", ip_address>>, block_until,
                            rule.block_duration_seconds)
              ELSE s1
        s3 == IF blockUser
              THEN CacheSet(s2, <<"blocked_user", user_id>>, block_until,
                            rule.block_duration_seconds)
              ELSE s2
    IN [store |-> s3,
        blocked_ips |-> IF blockIp THEN DictPut(bips, ip_address, block_until) ELSE bips,
        blocked_users |-> IF blockUser THEN DictPut(busers, user_id, block_until) ELSE busers]

BlockedResult(path, s, bips, busers) ==
    [allowed |-> FALSE, remaining |-> 0, reset_time |-> now + BlockedRetryAfter,
     retry_after |-> BlockedRetryAfter, path |-> path,
     store |-> s, blocked_ips |-> bips, blocked_users |-> busers]

\* check_rate_limit; user_id = 0 and ip_address = None stand for a missing argument
check_rate_limit(s, bips, busers, identifier, rule_type, ip_address, user_id, user_role) ==
    LET ipb == IF ip_address # None
               THEN IsBlocked(bips, s, "blocked_ip", ip_address)
               ELSE [blocked |-> FALSE, mem |-> bips]
    IN IF ipb.blocked
       THEN BlockedResult("ip_block", s, ipb.mem, busers)
       ELSE
       LET ub == IF user_id # 0
                 THEN IsBlocked(busers, s, "blocked_user", user_id)
                 ELSE [blocked |-> FALSE, mem |-> busers]
       IN IF ub.blocked
          THEN BlockedResult("user_block", s, ipb.mem, ub.mem)
          ELSE
          LET rule == _get_rule_for_type(rule_type, user_role)
              result == _check_sliding_window(s, identifier, rule)
              viol == _handle_rate_limit_violation(result.store, ipb.mem, ub.mem,
                          identifier, ip_address, user_id, rule)
          IN IF result.allowed
             THEN [allowed |-> TRUE, remaining |-> result.remaining,
                   reset_time |-> result.reset_time, retry_after |-> 0,
                   path |-> "window", store |-> result.store,
                   blocked_ips |-> ipb.mem, blocked_users |-> ub.mem]
             ELSE [allowed |-> FALSE, remaining |-> 0,
                   reset_time |-> result.reset_time,
                   retry_after |-> result.retry_after,
                   path |-> "window", store |-> viol.store,
                   blocked_ips |-> viol.blocked_ips,
                   blocked_users |-> viol.blocked_users]

(***************************************************************************)
(* The data of the model.                                                  *)
(***************************************************************************)
UserIds == {1}
ServerIds == {1, 2}
ClientIp == "10.0.0.1"

\* the server an administrator deactivates, the user an administrator deletes
RetiredServers == {2}
RemovedUsers == {1}

\* the optional fields of QueryRequest (0 and None: left out)
Options ==
    { [parameters |-> None, timeout |-> 0, max_rows |-> 0, use_cache |-> TRUE],
      [parameters |-> None, timeout |-> 5, max_rows |-> 1, use_cache |-> FALSE] }

\* the request of the model that takes every default
DefaultOptions == [parameters |-> None, timeout |-> 0, max_rows |-> 0, use_cache |-> TRUE]

\* UserRole: the member name, and its .value
UserRoleValue(role) ==
    CASE role = "ADMIN"    -> "admin"
      [] role = "ANALYST"  -> "analyst"
      [] role = "POWERBI"  -> "powerbi"
      [] role = "READONLY" -> "readonly"

\* f"query:{current_user.id}"
QueryIdentifier(user_id) == <<"query", user_id>>

\* The queries of the model, named by what analyze_query returns for them:
\* valid, query_type, risk_level, and whether metadata still holds query_hash
\* and normalized_query when execute_query reads them.
Queries == {"sel", "upd", "inj", "empty", "nometa"}

QueryValid(q) == q # "empty"
QueryTypeOf(q) == CASE q = "upd" -> "UPDATE" [] q = "inj" -> "OTHER" [] OTHER -> "SELECT"
RiskLevelOf(q) == IF q = "inj" THEN "CRITICAL" ELSE "LOW"
QueryHashOf(q) == <<"sha256", q>>
MetadataKeys(q) ==
    IF q = "nometa"
    THEN {"table_count", "join_count", "complexity_score"}
    ELSE {"query_hash", "normalized_query", "table_count", "join_count",
          "complexity_score"}

\* what the backend can answer to a statement that returns rows
BackendResults ==
    { [rows |-> << >>, columns |-> <<"id">>],
      [rows |-> <<"a", "b">>, columns |-> <<"id", "name">>],
      [rows |-> <<"huge">>, columns |-> <<"blob">>] }

\* len(str(data).encode('utf-8'))
RowBytes(row) == IF row = "huge" THEN MaxCacheBytes + 1 ELSE 8
RECURSIVE SizeBytes(_)
SizeBytes(data) ==
    IF data = << >> THEN 2 ELSE RowBytes(Head(data)) + SizeBytes(Tail(data))

\* result.fetchmany(max_rows)
FetchMany(rows, max_rows) ==
    IF Len(rows) <= max_rows THEN rows ELSE SubSeq(rows, 1, max_rows)

(***************************************************************************)
(* QueryAnalyzer._requires_approval (query_analyzer.py)                    *)
(***************************************************************************)
_requires_approval(risk_level, query_type, user_role, environment) ==
    IF ~approval_required THEN FALSE
    ELSE IF risk_level \in {"CRITICAL", "HIGH"} THEN TRUE
    ELSE IF environment = "production"
            /\ query_type \in {"INSERT", "UPDATE", "DELETE", "DROP", "TRUNCATE", "ALTER"}
         THEN TRUE
    ELSE IF user_role = "readonly" /\ query_type # "SELECT" THEN TRUE
    ELSE FALSE

\* the analysis dict as execute_query reads it
analyze_query(q, user_role, server_environment) ==
    IF ~QueryValid(q)
    THEN [valid |-> FALSE, query_type |-> "OTHER", risk_level |-> "HIGH",
          requires_approval |-> FALSE, metadata |-> {}, query_hash |-> None]
    ELSE [valid |-> TRUE, query_type |-> QueryTypeOf(q),
          risk_level |-> RiskLevelOf(q),
          requires_approval |-> _requires_approval(RiskLevelOf(q), QueryTypeOf(q),
                                                   user_role, server_environment),
          metadata |-> MetadataKeys(q), query_hash |-> QueryHashOf(q)]

(***************************************************************************)
(* QueryAnalyzer over the text of the query (query_analyzer.py).  A query  *)
(* is the sequence of its tokens: words, literals, symbols, runs of white  *)
(* space and comments, each with its text.  Every comment of the model     *)
(* stands next to white space, so that removing it joins no two words.     *)
(***************************************************************************)
Word(v)    == [t |-> "word", v |-> v]
Lit(v)     == [t |-> "lit", v |-> v]
Sym(v)     == [t |-> "sym", v |-> v]
Space(v)   == [t |-> "ws", v |-> v]
Comment(v) == [t |-> "comment", v |-> v]

\* the keywords and the identifiers the model writes with capitals:
\* <<lower case, as written>>
KeywordCase ==
    { <<"select", "SELECT">>, <<"from", "FROM">>, <<"where", "WHERE">>,
      <<"update", "UPDATE">>, <<"delete", "DELETE">>, <<"set", "SET">>,
      <<"or", "OR">>, <<"drop", "DROP">>, <<"table", "TABLE">> }
IdentifierCase == { <<"users", "Users">>, <<"orders", "Orders">> }

\* str.lower() of a word
Lower(v) ==
    IF \E p \in KeywordCase \cup IdentifierCase : p[2] = v
    THEN (CHOOSE p \in KeywordCase \cup IdentifierCase : p[2] = v)[1]
    ELSE v

\* the words sqlparse lexes as keywords
IsKeyword(v) == \E p \in KeywordCase : p[1] = Lower(v)

\* str.upper() of a keyword
Upper(v) == (CHOOSE p \in KeywordCase : p[1] = Lower(v))[2]

\* SELECT * FROM users
SelectUsers ==
    <<Word("SELECT"), Space(" "), Sym("*"), Space(" "), Word("FROM"), Space(" "),
      Word("users")>>

\* ... WHERE id = <literal>
WhereId(literal) ==
    <<Space(" "), Word("WHERE"), Space(" "), Word("id"), Space(" "), Sym("="),
      Space(" "), Lit(literal)>>

\* DELETE FROM orders
DeleteOrders ==
    <<Word("DELETE"), Space(" "), Word("FROM"), Space(" "), Word("orders")>>

\* UPDATE users SET id = 1
UpdateUsers ==
    <<Word("UPDATE"), Space(" "), Word("users"), Space(" "), Word("SET"),
      Space(" "), Word("id"), Space(" "), Sym("="), Space(" "), Lit("1")>>

\* the queries handed to analyze_query
BaseQueries ==
    { << >>,
      <<Comment("/* note */")>>,
      SelectUsers,
      SelectUsers \o WhereId("1"),
      SelectUsers \o WhereId("1")
          \o <<Space(" "), Word("OR"), Space(" "), Lit("1"), Space(" "), Sym("="),
               Space(" "), Lit("1")>>,
      <<Word("SELECT"), Space(" "), Sym("*"), Space(" "), Word("FROM"), Space(" "),
        Word("pg_tables")>>,
      SelectUsers \o <<Sym(";"), Space(" "), Word("DROP"), Space(" "), Word("TABLE"),
                       Space(" "), Word("users")>>,
      DeleteOrders,
      DeleteOrders \o WhereId("1"),
      UpdateUsers,
      UpdateUsers \o WhereId("1") }

\* The ways a second query differs from the first: the keywords in lower
\* case, every run of white space widened, a block comment after the first
\* run of white space and a line comment at the end, another value for the
\* literals.
Variations == {"case", "space", "comment", "literal"}

RECURSIVE AfterFirstSpace(_, _)
AfterFirstSpace(q, inserted) ==
    IF q = << >> THEN << >>
    ELSE IF Head(q).t = "ws" THEN <<Head(q)>> \o inserted \o Tail(q)
    ELSE <<Head(q)>> \o AfterFirstSpace(Tail(q), inserted)

Vary(variation, q) ==
    CASE variation = "case" ->
           [i \in 1..Len(q) |->
               IF q[i].t = "word" /\ IsKeyword(q[i].v) THEN Word(Lower(q[i].v)) ELSE q[i]]
      [] variation = "space" ->
           [i \in 1..Len(q) |-> IF q[i].t = "ws" THEN Space("  ") ELSE q[i]]
      [] variation = "comment" ->
           AfterFirstSpace(q, <<Comment("/* note */"), Space(" ")>>)
               \o <<Space(" "), Comment("-- note")>>
      [] variation = "literal" ->
           [i \in 1..Len(q) |-> IF q[i].t = "lit" THEN Lit("7") ELSE q[i]]

\* re.sub(r'\s+', ' ', query): every run of white space becomes one blank
RECURSIVE CollapseSpace(_)
CollapseSpace(q) ==
    IF q = << >> THEN << >>
    ELSE IF Head(q).t = "ws"
         THEN IF Len(q) > 1 /\ q[2].t = "ws"
              THEN CollapseSpace(Tail(q))
              ELSE <<Space(" ")>> \o CollapseSpace(Tail(q))
         ELSE <<Head(q)>> \o CollapseSpace(Tail(q))

\* str.strip()
Strip(q) ==
    LET first == IF q # << >> /\ q[1].t = "ws" THEN 2 ELSE 1
        last == IF q # << >> /\ q[Len(q)].t = "ws" THEN Len(q) - 1 ELSE Len(q)
    IN SubSeq(q, first, last)

\* _clean_query: the comments removed, white space collapsed and stripped
_clean_query(query) ==
    Strip(CollapseSpace(SelectSeq(query, LAMBDA tok : tok.t # "comment")))

\* _normalize_query: sqlparse.format(keyword_case='upper',
\* identifier_case='lower', strip_comments=True), then strip()
_normalize_query(query) ==
    Strip([i \in 1..Len(SelectSeq(query, LAMBDA tok : tok.t # "comment")) |->
             LET tok == SelectSeq(query, LAMBDA x : x.t # "comment")[i]
             IN IF tok.t # "word" THEN tok
                ELSE IF IsKeyword(tok.v) THEN Word(Upper(tok.v))
                ELSE Word(Lower(tok.v))])

\* _generate_query_hash: sha256 of the text; equal texts, and only equal
\* texts, get equal digests
_generate_query_hash(query) == <<"sha256", query>>

(***************************************************************************)
(* re.search over the normalized query.  A pattern is a sequence of items: *)
(* a token of given types and (lower-case) texts, optional white space,    *)
(* or any run of tokens.                                                   *)
(***************************************************************************)
PWord(words) == [k |-> "tok", t |-> {"word"}, s |-> words, all |-> FALSE]  \* \b(a|b)\b
PSym(syms)   == [k |-> "tok", t |-> {"sym"}, s |-> syms, all |-> FALSE]
PLit(lits)   == [k |-> "tok", t |-> {"lit"}, s |-> lits, all |-> FALSE]
PW           == [k |-> "tok", t |-> {"word", "lit"}, s |-> {}, all |-> TRUE]  \* \w+
PComment     == [k |-> "tok", t |-> {"comment"}, s |-> {}, all |-> TRUE]
PWs1         == [k |-> "tok", t |-> {"ws"}, s |-> {}, all |-> TRUE]        \* \s+
PWs0         == [k |-> "opt", t |-> {"ws"}, s |-> {}, all |-> TRUE]        \* \s*
PAny         == [k |-> "skip", t |-> {}, s |-> {}, all |-> TRUE]           \* .*

TokenMatches(tok, item) ==
    tok.t \in item.t /\ (item.all \/ Lower(tok.v) \in item.s)

RECURSIVE MatchAt(_, _, _)
MatchAt(query, i, pattern) ==
    IF pattern = << >> THEN TRUE
    ELSE LET item == Head(pattern)
             rest == Tail(pattern)
             here == i <= Len(query) /\ TokenMatches(query[i], item)
         IN CASE item.k = "tok"  -> here /\ MatchAt(query, i + 1, rest)
              [] item.k = "opt"  -> \/ MatchAt(query, i, rest)
                                    \/ here /\ MatchAt(query, i + 1, rest)
              [] item.k = "skip" -> \E j \in i..(Len(query) + 1) :
                                        MatchAt(query, j, rest)

\* the positions where re.findall finds the pattern
FindAll(pattern, query) == {i \in 1..Len(query) : MatchAt(query, i, pattern)}

\* re.search(pattern, query, re.IGNORECASE)
Search(pattern, query) == FindAll(pattern, query) # {}

\* The type sqlparse gives a token.  The lexer is not part of the
\* repository: with subtypes it files SELECT, INSERT, UPDATE, DELETE under
\* Keyword.DML and CREATE, DROP, ALTER under Keyword.DDL, without it under
\* Keyword itself.
TokenType(tok, subtypes) ==
    IF tok.t # "word" \/ ~IsKeyword(tok.v) THEN "Other"
    ELSE IF subtypes /\ Lower(tok.v) \in {"select", "insert", "update", "delete"}
         THEN "Keyword.DML"
    ELSE IF subtypes /\ Lower(tok.v) \in {"create", "drop", "alter"}
         THEN "Keyword.DDL"
    ELSE "Keyword"

\* _detect_query_type: the first token whose ttype is tokens.Keyword
_detect_query_type(parsed, subtypes) ==
    LET keywords == SelectSeq(parsed, LAMBDA tok : TokenType(tok, subtypes) = "Keyword")
        first_token == IF keywords = << >> THEN None ELSE Upper(keywords[1].v)
    IN IF first_token \in {"SELECT", "INSERT", "UPDATE", "DELETE", "CREATE", "DROP",
                           "ALTER", "TRUNCATE"}
       THEN first_token
       ELSE "OTHER"

\* _load_dangerous_patterns
dangerous_patterns ==
    [xp_cmdshell       |-> <<PWord({"xp_cmdshell"})>>,
     sp_executesql     |-> <<PWord({"sp_executesql"})>>,
     dynamic_sql       |-> <<PWord({"exec"}), PWs0, PSym({"("})>>,
     union_injection   |-> <<PWord({"union"}), PWs1, PWord({"select"}), PAny,
                             PWord({"from"})>>,
     stacked_queries   |-> <<PSym({";"}), PWs0,
                             PWord({"drop", "delete", "insert", "update", "create",
                                    "alter"})>>,
     comment_injection |-> <<PComment>>,
     hex_encoding      |-> <<PLit({"0x1f"})>>,
     char_function     |-> <<PWord({"char"}), PWs0, PSym({"("})>>,
     waitfor_delay     |-> <<PWord({"waitfor"}), PWs1, PWord({"delay"})>>,
     shutdown          |-> <<PWord({"shutdown"})>>]

\* injection_patterns of _analyze_security
injection_patterns ==
    [or_equals    |-> <<PWord({"or"}), PWs1, PW, PWs0, PSym({"="}), PWs0, PW>>,
     and_equals   |-> <<PWord({"and"}), PWs1, PW, PWs0, PSym({"="}), PWs0, PW>>,
     union_select |-> <<PWord({"union"}), PWs1, PWord({"select"})>>,
     drop_table   |-> <<PSym({";"}), PWs0, PWord({"drop"}), PWs1, PWord({"table"})>>,
     delete_from  |-> <<PSym({";"}), PWs0, PWord({"delete"}), PWs1, PWord({"from"})>>,
     exec_call    |-> <<PWord({"exec"}), PWs0, PSym({"("})>>,
     eval_call    |-> <<PWord({"eval"}), PWs0, PSym({"("})>>]

\* role_restrictions.get(user_role, [])
role_restrictions(user_role) ==
    CASE user_role = "readonly" ->
           [statements |-> <<PWord({"insert", "update", "delete", "drop", "create",
                                    "alter", "truncate"})>>,
            grants     |-> <<PWord({"grant", "revoke"})>>,
            procedures |-> <<PWord({"exec", "execute", "sp_", "xp_"})>>]
      [] user_role = "powerbi" ->
           [statements |-> <<PWord({"drop", "create", "alter", "truncate"})>>,
            grants     |-> <<PWord({"grant", "revoke"})>>,
            procedures |-> <<PWord({"exec", "execute", "sp_", "xp_"})>>]
      [] user_role = "analyst" ->
           [statements |-> <<PWord({"drop", "create", "alter"})>>,
            grants     |-> <<PWord({"grant", "revoke"})>>]
      [] OTHER -> EmptyDict

\* _check_unauthorized_operations: one issue per restriction found
_check_unauthorized_operations(query, user_role) ==
    LET restrictions == role_restrictions(user_role)
    IN { [type |-> "unauthorized_operation", pattern |-> k, severity |-> "high"] :
           k \in {x \in DOMAIN restrictions : Search(restrictions[x], query)} }

\* system_tables of _analyze_security, and "table in query.lower()" for the
\* words of the model
system_tables ==
    {"information_schema", "sys.", "pg_", "mysql.", "master.", "msdb.", "tempdb.",
     "model."}
InText(table, query) ==
    \E i \in 1..Len(query) :
        <<Lower(query[i].v), table>> \in { <<"pg_tables", "pg_">> }

\* _analyze_security: security_issues and risk_score
_analyze_security(query, user_role) ==
    LET dangerous == { [type |-> "dangerous_pattern", pattern |-> name,
                        severity |-> "high"] :
                         name \in {x \in DOMAIN dangerous_patterns :
                                       Search(dangerous_patterns[x], query)} }
        injection == { [type |-> "sql_injection", pattern |-> k,
                        severity |-> "critical"] :
                         k \in {x \in DOMAIN injection_patterns :
                                    Search(injection_patterns[x], query)} }
        unauthorized_ops == _check_unauthorized_operations(query, user_role)
        system == { [type |-> "system_table_access", pattern |-> table,
                     severity |-> "medium"] :
                      table \in {x \in system_tables : InText(x, query)} }
    IN [security_issues |-> dangerous \cup injection \cup unauthorized_ops \cup system,
        risk_score |-> Cardinality(dangerous) * 30 + Cardinality(injection) * 50
                         + Cardinality(unauthorized_ops) * 20
                         + Cardinality(system) * 15]

\* re.search(r'\b(update|delete)\b(?!.*\bwhere\b)', query)
MissingWhere(query) ==
    \E i \in 1..Len(query) :
        /\ TokenMatches(query[i], PWord({"update", "delete"}))
        /\ ~\E j \in (i + 1)..Len(query) : TokenMatches(query[j], PWord({"where"}))

\* _analyze_performance: performance_issues, suggestions and metadata
_analyze_performance(query) ==
    LET table_count == Cardinality(FindAll(<<PWord({"from"}), PWs1, PW>>, query))
        join_count == Cardinality(FindAll(<<PWord({"join"})>>, query))
        subquery_count ==
            Cardinality(FindAll(<<PSym({"("}), PWs0, PWord({"select"})>>, query))
        clause_count ==
            Cardinality(FindAll(<<PWord({"group", "order"}), PWs1, PWord({"by"})>>, query))
              + Cardinality(FindAll(<<PWord({"having"})>>, query))
        complexity_score ==
            table_count * 2 + join_count * 3 + subquery_count * 4 + clause_count * 2
        select_star == Search(<<PWord({"select"}), PWs1, PSym({"*"})>>, query)
    IN [performance_issues |->
            (IF select_star THEN {"select_star"} ELSE {})
              \cup (IF MissingWhere(query) THEN {"missing_where"} ELSE {})
              \cup (IF join_count > 5 THEN {"complex_joins"} ELSE {})
              \cup (IF subquery_count > 3 THEN {"complex_subqueries"} ELSE {})
              \cup (IF complexity_score > 20 THEN {"high_complexity"} ELSE {}),
        suggestions |-> IF select_star THEN {"select_star"} ELSE {},
        metadata |-> [table_count |-> table_count, join_count |-> join_count,
                      complexity_score |-> complexity_score]]

\* pii_patterns of _analyze_compliance
pii_patterns ==
    [identity    |-> <<PWord({"ssn", "social_security", "credit_card", "phone",
                              "email", "address"})>>,
     credentials |-> <<PWord({"password", "pwd", "secret", "token", "key"})>>,
     pay         |-> <<PWord({"salary", "income", "wage", "compensation"})>>]

\* _analyze_compliance: compliance_issues
_analyze_compliance(query, environment) ==
    (IF /\ environment = "production"
        /\ Search(<<PWord({"insert", "update", "delete", "drop", "truncate",
                           "alter"})>>, query)
     THEN {[type |-> "production_modification", pattern |-> None]} ELSE {})
      \cup { [type |-> "potential_pii_access", pattern |-> k] :
               k \in {x \in DOMAIN pii_patterns : Search(pii_patterns[x], query)} }

\* _calculate_risk_level
_calculate_risk_level(risk_score, security_issues, user_role, environment) ==
    IF risk_score >= 50 THEN "CRITICAL"
    ELSE IF risk_score >= 30 THEN "HIGH"
    ELSE IF risk_score >= 15 THEN "MEDIUM"
    ELSE IF \E issue \in security_issues : issue.severity = "critical" THEN "CRITICAL"
    ELSE IF /\ environment = "production"
            /\ \E issue \in security_issues : issue.severity = "high"
         THEN "HIGH"
    ELSE IF user_role = "readonly" /\ risk_score > 0 THEN "MEDIUM"
    ELSE "LOW"

\* what analyze_query returns for a query that is not valid
InvalidAnalysis(error) ==
    [valid |-> FALSE, error |-> error, risk_level |-> "HIGH"]

\* analyze_query over the text: the dict it returns.  metadata is the dict
\* the performance analysis puts in place of the one built first (line 94)
QueryAnalyzer_analyze_query(query, user_role, server_environment, subtypes) ==
    LET cleaned_query == _clean_query(query)
        normalized_query == _normalize_query(cleaned_query)
        security == _analyze_security(normalized_query, user_role)
        performance == _analyze_performance(normalized_query)
        risk_level == _calculate_risk_level(security.risk_score,
                                            security.security_issues,
                                            user_role, server_environment)
        query_type == _detect_query_type(normalized_query, subtypes)
    IN IF SelectSeq(query, LAMBDA tok : tok.t # "ws") = << >>
       THEN InvalidAnalysis("Query cannot be empty")
       ELSE IF normalized_query = << >>
       THEN InvalidAnalysis("Unable to parse SQL query")
       ELSE [valid |-> TRUE,
             query_type |-> query_type,
             risk_level |-> risk_level,
             risk_score |-> security.risk_score,
             security_issues |-> security.security_issues,
             performance_issues |-> performance.performance_issues,
             compliance_issues |-> _analyze_compliance(normalized_query,
                                                       server_environment),
             metadata |-> performance.metadata,
             requires_approval |-> _requires_approval(risk_level, query_type,
                                                      user_role, server_environment)]

(***************************************************************************)
(* AuditService.log_event (audit.py)                                       *)
(***************************************************************************)
\* the addresses an event may carry; ip_address.startswith of the three
\* private prefixes is false exactly for the external ones
InternalIps == {"10.0.0.1"}
ExternalIps == {"203.0.113.5"}

\* action_risks.get(action, 10)
ActionRisk(action) ==
    CASE action = "login_failed" -> 20     [] action = "login_success" -> 5
      [] action = "logout" -> 0            [] action = "password_changed" -> 15
      [] action = "user_created" -> 30     [] action = "user_deleted" -> 50
      [] action = "role_changed" -> 40     [] action = "query_executed" -> 10
      [] action = "query_failed" -> 25     [] action = "server_added" -> 35
      [] action = "server_deleted" -> 60   [] action = "config_changed" -> 45
      [] action = "admin_access" -> 25     [] OTHER -> 10

\* _calculate_risk_score; details is the set of risk keys that are set
\* ("failed_attempts" stands for details["failed_attempts"] > 3)
_calculate_risk_score(action, details, ip_address) ==
    LET risk_score == ActionRisk(action)
            + (IF "failed_attempts" \in details THEN 30 ELSE 0)
            + (IF "privilege_escalation" \in details THEN 40 ELSE 0)
            + (IF "system_access" \in details THEN 20 ELSE 0)
            + (IF "data_modification" \in details THEN 15 ELSE 0)
            + (IF ip_address # None /\ ip_address \notin InternalIps THEN 10 ELSE 0)
    IN IF risk_score < MaxRiskScore THEN risk_score ELSE MaxRiskScore

SeverityLevel(severity) ==
    CASE severity = "info" -> 1 [] severity = "warning" -> 2
      [] severity = "error" -> 3 [] severity = "critical" -> 4 [] OTHER -> 1

\* _matches_pattern over _load_suspicious_patterns
MatchesSuspiciousPattern(action, severity, large_result_set) ==
    \/ action = "login_failed" /\ SeverityLevel(severity) >= 2
    \/ action \in {"user_role_changed", "admin_access_attempted"}
          /\ SeverityLevel(severity) >= 2
    \/ action = "query_executed" /\ large_result_set
    \/ action \in {"config_changed", "server_deleted"} /\ SeverityLevel(severity) >= 2
    \/ action \in {"query_executed", "admin_access"}

RapidKey(user_id, action) == <<"rapid_actions", user_id, action>>

UserIpsKey(user_id) == <<"user_ips", user_id>>

\* recent_ips.append(ip); recent_ips[-5:]
AppendRecentIp(recent_ips, ip) ==
    LET added == Append(recent_ips, ip)
    IN IF Len(added) > MaxRecentIps
       THEN SubSeq(added, Len(added) - MaxRecentIps + 1, Len(added))
       ELSE added

\* _check_unusual_ip_activity: its answer and the store it leaves
_check_unusual_ip_activity(s, user_id, ip_address) ==
    IF ip_address = None \/ user_id = 0
    THEN [unusual |-> FALSE, store |-> s]
    ELSE LET recent_ips == CacheGet(s, UserIpsKey(user_id), << >>)
             known == \E k \in 1..Len(recent_ips) : recent_ips[k] = ip_address
         IN [unusual |-> ~known /\ Len(recent_ips) > 0
                            /\ Len(recent_ips) < MaxRecentIps,
             store |-> IF known THEN s
                       ELSE CacheSet(s, UserIpsKey(user_id),
                                     AppendRecentIp(recent_ips, ip_address),
                                     UserIpsTTL)]

\* _check_privilege_escalation
_check_privilege_escalation(action) ==
    action \in {"user_role_changed", "user_permissions_modified",
                "admin_access_attempted", "system_config_modified"}

\* a log_event that loses the event
log_event_lost(q, s, action, user_id, ip_address, resource_id, details, severity) ==
    [queue |-> q, store |-> s]

\* log_event: the queue and the store it leaves
log_event(q, s, action, user_id, ip_address, resource_id, details, severity) ==
    LET pattern == MatchesSuspiciousPattern(action, severity,
                                            "large_result_set" \in details)
        current_count == CacheGet(s, RapidKey(user_id, action), 0)
        rapid == ~pattern /\ user_id # 0 /\ current_count >= RapidActionLimit
        counts == ~pattern /\ user_id # 0 /\ current_count < RapidActionLimit
        counted == IF counts
                   THEN CacheSet(s, RapidKey(user_id, action), current_count + 1,
                                 RapidActionTTL)
                   ELSE s
        ip_check == IF pattern \/ rapid
                    THEN [unusual |-> FALSE, store |-> counted]
                    ELSE _check_unusual_ip_activity(counted, user_id, ip_address)
        audit_data == [action |-> action, user_id |-> user_id,
                       ip_address |-> ip_address,
                       resource_id |-> resource_id, details |-> details,
                       severity |-> severity,
                       risk_score |-> _calculate_risk_score(action, details, ip_address),
                       is_suspicious |-> \/ pattern \/ rapid \/ ip_check.unusual
                                         \/ _check_privilege_escalation(action)]
    IN [queue |-> Append(q, audit_data), store |-> ip_check.store]

(***************************************************************************)
(* SQLProxyService (sql_proxy.py)                                          *)
(***************************************************************************)
\* a permission check that lets every user in
_check_server_permissions_open(user, server) == TRUE

_check_server_permissions(user, server) ==
    IF user.role = "ADMIN" THEN TRUE
    ELSE IF server.allowed_roles # {} THEN user.role \in server.allowed_roles
    ELSE CASE user.role = "ANALYST"  -> TRUE
           [] user.role = "POWERBI"  -> server.environment # "production"
           [] user.role = "READONLY" -> TRUE
           [] OTHER                  -> FALSE

\* pool_key = f"{server.id}_{server.host}_{server.port}_{server.database}"
PoolKey(server_id, server) == <<server_id, server.host, server.port, server.database>>

\* f"postgresql://{username}:{password}@{host}:{port}/{database}"
_build_connection_string(server) ==
    <<server.username, server.password, server.host, server.port, server.database>>

\* the engine create_engine returns: what it connects with, and which one it is
create_engine(server, serial) ==
    [connection_string |-> _build_connection_string(server), serial |-> serial]

\* return None: no engine
NoEngine == [connection_string |-> << >>, serial |-> 0]

\* a lookup that never finds the pool in the registry
PoolLookup_blind(pools, pool_key) == FALSE

\* if pool_key in self.connection_pools
PoolLookup(pools, pool_key) == pool_key \in DOMAIN pools

\* a _get_connection_pool that registers the engine before its round-trip
_get_connection_pool_early(pools, st, server_id, server, created) ==
    LET pool_key == PoolKey(server_id, server)
        engine == create_engine(server, st.total_connections + 1)
    IN IF PoolLookup(pools, pool_key)
       THEN [engine |-> pools[pool_key], pools |-> pools, stats |-> st, made |-> FALSE]
       ELSE IF created
       THEN [engine |-> engine, pools |-> DictPut(pools, pool_key, engine),
             stats |-> [st EXCEPT !.total_connections = @ + 1], made |-> TRUE]
       ELSE [engine |-> NoEngine, pools |-> DictPut(pools, pool_key, engine),
             stats |-> st, made |-> FALSE]

\* _get_connection_pool: the engine it returns (None: creation failed) and the
\* registry and stats it leaves; created says whether create_engine and its
\* SELECT 1 succeed.  The function has no await: it runs without suspending.
_get_connection_pool(pools, st, server_id, server, created) ==
    LET pool_key == PoolKey(server_id, server)
        engine == create_engine(server, st.total_connections + 1)
    IN IF PoolLookup(pools, pool_key)
       THEN [engine |-> pools[pool_key], pools |-> pools, stats |-> st, made |-> FALSE]
       ELSE IF created
       THEN [engine |-> engine, pools |-> DictPut(pools, pool_key, engine),
             stats |-> [st EXCEPT !.total_connections = @ + 1], made |-> TRUE]
       ELSE [engine |-> NoEngine, pools |-> pools, stats |-> st, made |-> FALSE]

\* hashlib.md5(str(sorted(parameters.items()))): "" when there are none
ParamHash(parameters) == IF parameters = None THEN "" ELSE parameters

\* a cache key that leaves out the backend
ResultKey_noserver(query_hash, server_id, parameters) ==
    <<"query_result", query_hash, 0, ParamHash(parameters)>>

\* cache_key = f"query_result:{query_hash}:{server_id}:{param_hash}"
ResultKey(query_hash, server_id, parameters) ==
    <<"query_result", query_hash, server_id, ParamHash(parameters)>>

\* the condition under which execute_query consults the cache
ReadsCache(use_cache, query_type) == use_cache /\ query_type = "SELECT"

\* an execute_query that caches every result, whatever the statement
WritesCache_any(result, query_type) == TRUE

\* the condition under which execute_query calls _cache_result
WritesCache(result, query_type) ==
    result.success /\ query_type = "SELECT" /\ result.row_count > 0

\* a _cache_result that stores nothing
_cache_result_skipped(s, query_hash, server_id, parameters, result) == s

\* _cache_result
_cache_result(s, query_hash, server_id, parameters, result) ==
    IF result.result_size_bytes > MaxCacheBytes THEN s
    ELSE CacheSet(s, ResultKey(query_hash, server_id, parameters),
                  [data |-> result.data, columns |-> result.columns,
                   row_count |-> result.row_count, cached_at |-> now],
                  CacheTTL)

\* history: no earlier execution under this cache key
NoPrior ==
    [known |-> FALSE, data |-> << >>, columns |-> << >>, row_count |-> 0,
     result_size_bytes |-> 0, at |-> 0, connected |-> FALSE, age |-> 0]

\* an error as the caller and the record see it: which error (kind, with the
\* timeout its text quotes) and, for an error raised while the statement
\* runs, the text str(e) of the exception; NoError is None
NoError == [kind |-> None, timeout |-> 0, message |-> << >>]
Error(kind) == [kind |-> kind, timeout |-> 0, message |-> << >>]

\* what connection.execute raises when the driver fails: SQLAlchemy's
\* DBAPIError around the driver's exception (caught at line 414), or an
\* exception that is no SQLAlchemyError (caught at line 420); orig is the
\* driver's own message, statement the SQL that was running
DriverMessages == {"deadlock victim", "syntax error"}
ExceptionClasses == {"DBAPIError", "Exception"}
DriverRaises == [cls : ExceptionClasses, orig : DriverMessages]
Raised(cls, orig, statement) == [cls |-> cls, orig |-> orig, statement |-> statement]
NoRaise == Raised(None, None, None)

\* what the driver raises under each outcome of the execution
RaisesFor(outcome) ==
    IF outcome = "driver_error" THEN DriverRaises ELSE {[cls |-> None, orig |-> None]}

\* a str(e) that returns the driver's own message for every exception
str_orig(e) == <<e.orig>>

\* str(e), lines 418 and 424, as the pieces of the text: an Exception gives
\* its message, a DBAPIError gives the driver's class and message followed by
\* the statement
str(e) ==
    IF e.cls = "DBAPIError"
    THEN <<"(driver.Error) ", e.orig, " [SQL: ", e.statement, "]">>
    ELSE <<e.orig>>

\* the text holds the message as one of its pieces
Contains(text, message) == \E i \in 1..Len(text) : text[i] = message

NoAnalysis == analyze_query("empty", None, None)

Idle ==
    [pc |-> "idle", user_id |-> 0, server_id |-> 0, query |-> None,
     parameters |-> None, timeout |-> 0, max_rows |-> 0, use_cache |-> FALSE,
     execution_id |-> 0, analysis |-> NoAnalysis, exc |-> NoError, outcome |-> None,
     raised |-> NoRaise,
     queue_len |-> 0, failed_at_call |-> 0,
     cache_gets |-> 0, cache_sets |-> 0, pool_gets |-> 0,
     connects |-> 0, prior |-> NoPrior]

\* what the finished request leaves in resp: the answer, and for the
\* properties what the call did (queue and st are the audit queue and the
\* stats as the call leaves them)
Answer(r, status, success, cached, data, columns, error, queue, st) ==
    [status |-> status, success |-> success, cached |-> cached, data |-> data,
     columns |-> columns, error |-> error, execution_id |-> r.execution_id,
     via |-> "service", denied_by |-> None,
     user_id |-> r.user_id, server_id |-> r.server_id, query |-> r.query,
     parameters |-> r.parameters, timeout |-> r.timeout,
     use_cache |-> r.use_cache,
     requires_approval |-> r.analysis.requires_approval,
     risk_level |-> r.analysis.risk_level,
     outcome |-> r.outcome, raised |-> r.raised,
     active_connections |-> st.active_connections,
     audits |-> Len(queue) - r.queue_len,
     audit_action |-> IF Len(queue) > r.queue_len
                      THEN queue[Len(queue)].action ELSE None,
     failed_delta |-> st.failed_queries - r.failed_at_call,
     cache_gets |-> r.cache_gets, cache_sets |-> r.cache_sets,
     pool_gets |-> r.pool_gets, connects |-> r.connects,
     prior |-> r.prior, retry_after |-> 0]

\* the endpoint answers without calling the service; audits is the number of
\* audit events the endpoint enqueued
Refusal(status, denied_by, user_id, server_id, retry_after, audits) ==
    [status |-> status, success |-> FALSE, cached |-> FALSE, data |-> << >>,
     columns |-> << >>, error |-> NoError, execution_id |-> 0,
     via |-> "endpoint", denied_by |-> denied_by,
     user_id |-> user_id, server_id |-> server_id, query |-> None,
     parameters |-> None, timeout |-> 0, use_cache |-> FALSE,
     requires_approval |-> FALSE, risk_level |-> None,
     outcome |-> None, raised |-> NoRaise, active_connections |-> 0,
     audits |-> audits, audit_action |-> None,
     failed_delta |-> 0,
     cache_gets |-> 0, cache_sets |-> 0, pool_gets |-> 0, connects |-> 0,
     prior |-> NoPrior, retry_after |-> retry_after]

NoResponse == [Refusal(0, None, 0, 0, 0, 0) EXCEPT !.via = "none"]

(***************************************************************************)
(* History of the admitted requests, kept for the properties.              *)
(***************************************************************************)
AdmitKey(identifier, rule) == <<identifier, rule.window_seconds>>

\* requests admitted for (identifier, window) during the last w seconds
AdmittedWithin(h, identifier, rule, w) ==
    LET d == DictGet(h, AdmitKey(identifier, rule), EmptyDict)
    IN SumValues([t \in {x \in DOMAIN d : x > now - w} |-> d[t]])

RecordAdmit(h, identifier, rule) ==
    LET d == DictGet(h, AdmitKey(identifier, rule), EmptyDict)
    IN DictPut(h, AdmitKey(identifier, rule), DictPut(d, now, DictGet(d, now, 0) + 1))

ForgetAdmits(h, t) ==
    LET keep(d) == [x \in {y \in DOMAIN d : y > t - BaseWindow} |-> d[x]]
    IN [k \in {x \in DOMAIN h : DOMAIN keep(h[x]) # {}} |-> keep(h[k])]

\* History of the denials and of the blocks, kept for the properties:
\* run[identifier] is the number of sliding-window denials of the identifier
\* since its last admitted request; blocks[<<family, who>>] is when the last
\* block of an IP address or user was set, and for how long.
NoHistory == [run |-> EmptyDict, blocks |-> EmptyDict]

ConsecutiveDenials(h, identifier) == DictGet(h.run, identifier, 0)

BlockInForce(h, family, who) ==
    LET k == <<family, who>>
    IN k \in DOMAIN h.blocks /\ now < h.blocks[k].at + h.blocks[k].duration

\* the run of denials of the identifier once the call has answered r
RunAfter(h, r, identifier) ==
    IF r.path # "window" THEN ConsecutiveDenials(h, identifier)
    ELSE IF r.allowed THEN 0
    ELSE ConsecutiveDenials(h, identifier) + 1

\* the call set a block: on the window path the in-memory tables hold no
\* entry of the caller unless _block_ip / _block_user has just written it
SetsIpBlock(r, ip_address) ==
    r.path = "window" /\ ip_address # None /\ ip_address \in DOMAIN r.blocked_ips

SetsUserBlock(r, user_id) ==
    r.path = "window" /\ user_id # 0 /\ user_id \in DOMAIN r.blocked_users

RecordCall(h, r, identifier, ip_address, user_id, rule) ==
    LET entry == [at |-> now, duration |-> rule.block_duration_seconds]
        b1 == IF SetsIpBlock(r, ip_address)
              THEN DictPut(h.blocks, <<"blocked_ip", ip_address>>, entry)
              ELSE h.blocks
        b2 == IF SetsUserBlock(r, user_id)
              THEN DictPut(b1, <<"blocked_user", user_id>>, entry)
              ELSE b1
    IN [run |-> DictPut(h.run, identifier, RunAfter(h, r, identifier)),
        blocks |-> b2]

\* the oldest minute the window still counts (the current time if none)
OldestCounted(s, identifier, rule) ==
    LET cleaned_data == CleanedData(s, identifier, rule)
    IN IF DOMAIN cleaned_data = {} THEN now
       ELSE CHOOSE m \in DOMAIN cleaned_data : \A x \in DOMAIN cleaned_data : m <= x

NoCall ==
    [path |-> "none", identifier |-> None, ip_address |-> None, user_id |-> 0,
     at |-> 0, allowed |-> TRUE, remaining |-> 0, retry_after |-> 0,
     requests |-> 0, window_seconds |-> 0, prior |-> 0, connected |-> TRUE,
     run |-> 0, sets_ip_block |-> FALSE, sets_user_block |-> FALSE,
     ip_block_in_force |-> FALSE, user_block_in_force |-> FALSE,
     store_unchanged |-> TRUE, oldest |-> 0,
     rule_type |-> None, user_role |-> None, rule |-> rules["default"],
     counted |-> 0, counted_after |-> 0, window_kept |-> TRUE]

\* what a check_rate_limit call leaves in rl_last
CallRecord(r, identifier, rule_type, ip_address, user_id, user_role) ==
    LET rule == _get_rule_for_type(rule_type, user_role)
    IN [path |-> r.path, identifier |-> identifier, ip_address |-> ip_address,
        user_id |-> user_id, at |-> now, allowed |-> r.allowed,
        remaining |-> r.remaining, retry_after |-> r.retry_after,
        requests |-> rule.requests, window_seconds |-> rule.window_seconds,
        prior |-> AdmittedWithin(admits, identifier, rule, rule.window_seconds),
        connected |-> is_connected,
        run |-> RunAfter(rl_hist, r, identifier),
        sets_ip_block |-> SetsIpBlock(r, ip_address),
        sets_user_block |-> SetsUserBlock(r, user_id),
        ip_block_in_force |-> ip_address # None
                              /\ BlockInForce(rl_hist, "blocked_ip", ip_address),
        user_block_in_force |-> user_id # 0
                                /\ BlockInForce(rl_hist, "blocked_user", user_id),
        store_unchanged |-> r.store = store,
        oldest |-> OldestCounted(store, identifier, rule),
        rule_type |-> rule_type, user_role |-> user_role, rule |-> rule,
        counted |-> SumValues(CleanedData(store, identifier, rule)),
        counted_after |-> SumValues(CleanedData(r.store, identifier, rule)),
        window_kept |-> LET key == WindowKey(identifier, rule)
                        IN /\ (key \in DOMAIN r.store) = (key \in DOMAIN store)
                           /\ key \in DOMAIN store => r.store[key] = store[key]]

(***************************************************************************)
(* Initial state: the services after initialize(), empty tables of         *)
(* executions, two users and two backends registered by the administrator. *)
(***************************************************************************)
InitialServers ==
    (1 :> [is_active |-> TRUE, environment |-> "production", allowed_roles |-> {},
           host |-> "db1", port |-> 5432, database |-> "app",
           username |-> "proxy", password |-> "secret1"])
    @@ (2 :> [is_active |-> TRUE, environment |-> "development",
              allowed_roles |-> {"analyst"},
              host |-> "db2", port |-> 5432, database |-> "app",
              username |-> "proxy", password |-> "secret1"])

InitialUsers == [u \in UserIds |-> [role |-> "READONLY"]]

InitialStats ==
    [total_queries |-> 0, successful_queries |-> 0, failed_queries |-> 0,
     cached_queries |-> 0, active_connections |-> 0, total_connections |-> 0]

\* the cleanup task before initialize() has created it
NoSweeper == [started |-> FALSE, expired_ips |-> {}, expired_users |-> {}]

RLInit ==
    /\ now = 0
    /\ is_connected = TRUE
    /\ store = EmptyDict
    /\ blocked_ips = EmptyDict
    /\ blocked_users = EmptyDict
    /\ rl_last = NoCall
    /\ admits = EmptyDict
    /\ rl_hist = NoHistory

SvcInit ==
    /\ approval_required \in BOOLEAN
    /\ servers = InitialServers
    /\ users = InitialUsers
    /\ executions = EmptyDict
    /\ connection_pools = EmptyDict
    /\ stats = InitialStats
    /\ audit_queue = << >>
    /\ req = Idle
    /\ resp = NoResponse
    /\ calls = 0
    /\ last_exec = EmptyDict

\* no limiter call, no pool request and no audit entry is in flight
ExtInit ==
    /\ procs = EmptyDict
    /\ pool_reqs = EmptyDict
    /\ pool_hist = EmptyDict
    /\ worker = EmptyDict
    /\ audit_hist = EmptyDict
    /\ analyzer = EmptyDict /\ sweeper = NoSweeper /\ conns = EmptyDict

Init == RLInit /\ SvcInit /\ ExtInit

(***************************************************************************)
(* The environment: time, and the administrator's changes to the tables.   *)
(***************************************************************************)
\* time passes; Redis drops the keys that have expired
Tick ==
    /\ now + TickSeconds <= MaxTime
    /\ now' = now + TickSeconds
    /\ store' = Expire(store, now')
    /\ admits' = ForgetAdmits(admits, now')
    /\ UNCHANGED <<extvars, is_connected, blocked_ips, blocked_users, rl_last, rl_hist, svcvars>>

\* an administrator deactivates a backend
DeactivateServer(server_id) ==
    /\ servers[server_id].is_active
    /\ servers' = [servers EXCEPT ![server_id].is_active = FALSE]
    /\ UNCHANGED <<extvars, rlvars, approval_required, users, executions, connection_pools,
                   stats, audit_queue, req, resp, calls, last_exec>>

\* an administrator deletes a user
DeleteUser(user_id) ==
    /\ user_id \in DOMAIN users
    /\ users' = DictDel(users, user_id)
    /\ UNCHANGED <<extvars, rlvars, approval_required, servers, executions, connection_pools,
                   stats, audit_queue, req, resp, calls, last_exec>>

\* the store becomes unreachable, and reachable again
StoreDown ==
    /\ is_connected
    /\ is_connected' = FALSE
    /\ UNCHANGED <<extvars, now, store, blocked_ips, blocked_users, rl_last, admits, rl_hist, svcvars>>

StoreUp ==
    /\ ~is_connected
    /\ is_connected' = TRUE
    /\ UNCHANGED <<extvars, now, store, blocked_ips, blocked_users, rl_last, admits, rl_hist, svcvars>>

(***************************************************************************)
(* check_rate_limit called by any caller (SpecRL)                          *)
(***************************************************************************)
CheckRateLimit(identifier, rule_type, ip_address, user_id, user_role) ==
    /\ CacheGet(store, <<"violations", identifier>>, 0) < MaxViolations
    /\ AdmittedWithin(admits, identifier, _get_rule_for_type(rule_type, user_role),
                      BaseWindow) < MaxAdmits
    /\ LET r == check_rate_limit(store, blocked_ips, blocked_users, identifier,
                                 rule_type, ip_address, user_id, user_role)
           rule == _get_rule_for_type(rule_type, user_role)
       IN /\ store' = r.store
          /\ blocked_ips' = r.blocked_ips
          /\ blocked_users' = r.blocked_users
          /\ rl_last' = CallRecord(r, identifier, rule_type, ip_address, user_id, user_role)
          /\ admits' = IF r.allowed /\ r.path = "window"
                       THEN RecordAdmit(admits, identifier, rule)
                       ELSE admits
          /\ rl_hist' = RecordCall(rl_hist, r, identifier, ip_address, user_id, rule)
    /\ UNCHANGED <<extvars, now, is_connected, svcvars>>

RLNext ==
    \/ \E ip \in {ClientIp, None}, role \in {None, "analyst"} :
          CheckRateLimit(QueryIdentifier(1), "query", ip, 1, role)
    \/ Tick

RLOnlyInit == Init /\ approval_required = FALSE

SpecRL == RLOnlyInit /\ [][RLNext]_vars

\* check_rate_limit with a clock that also stops inside the minutes, called
\* with rule types and roles that have a rule of their own and that have
\* none (SpecRLFine)
FineTick ==
    /\ now + FineTickSeconds <= MaxTime
    /\ now' = now + FineTickSeconds
    /\ store' = Expire(store, now')
    /\ admits' = ForgetAdmits(admits, now')
    /\ UNCHANGED <<extvars, is_connected, blocked_ips, blocked_users, rl_last, rl_hist,
                   svcvars>>

RulePicks ==
    { [rule_type |-> "query", user_role |-> None],
      [rule_type |-> "query", user_role |-> "analyst"],
      [rule_type |-> "query", user_role |-> "guest"],
      [rule_type |-> "reports", user_role |-> None] }

RLFineNext ==
    \/ \E pick \in RulePicks :
          CheckRateLimit(QueryIdentifier(1), pick.rule_type, None, 1, pick.user_role)
    \/ FineTick

SpecRLFine == RLOnlyInit /\ [][RLFineNext]_vars

\* initialize(), lines 53-58: asyncio.create_task(self._cleanup_expired_blocks())
Initialize ==
    /\ ~sweeper.started
    /\ sweeper' = [sweeper EXCEPT !.started = TRUE]
    /\ UNCHANGED <<rlvars, svcvars, procs, pool_reqs, pool_hist, worker, audit_hist,
                   analyzer, conns>>

\* a sweep that takes a block for expired only after its block_until
ExpiredKeys_late(mem) == {who \in DOMAIN mem : now > mem[who]}

\* expired_ips / expired_users of _cleanup_expired_blocks, lines 445-448 and
\* 454-457: the keys whose block_until is not after now
ExpiredKeys(mem) == {who \in DOMAIN mem : now >= mem[who]}

\* the dict without the keys: for k in expired: del mem[k]
WithoutKeys(mem, keys) == [who \in DOMAIN mem \ keys |-> mem[who]]

\* one round of _cleanup_expired_blocks, lines 438-469, when its sleep of
\* five minutes returns; between the reading of the clock and the last del
\* the task does not await
Sweep ==
    /\ sweeper.started
    /\ LET expired_ips == ExpiredKeys(blocked_ips)
           expired_users == ExpiredKeys(blocked_users)
       IN /\ blocked_ips' = WithoutKeys(blocked_ips, expired_ips)
          /\ blocked_users' = WithoutKeys(blocked_users, expired_users)
          /\ sweeper' = [sweeper EXCEPT !.expired_ips = expired_ips,
                                        !.expired_users = expired_users]
    /\ UNCHANGED <<now, is_connected, store, rl_last, admits, rl_hist, svcvars,
                   procs, pool_reqs, pool_hist, worker, audit_hist, analyzer, conns>>

\* check_rate_limit with and without initialize(), and the cleanup task
\* (SpecRLSweep); the event loop runs the task whenever its sleep is over
RLSweepNext ==
    \/ \E ip \in {ClientIp, None} :
          CheckRateLimit(QueryIdentifier(1), "query", ip, 1, None)
    \/ Tick
    \/ Initialize
    \/ Sweep

SpecRLSweep == RLOnlyInit /\ [][RLSweepNext]_vars /\ WF_vars(Sweep)

\* check_rate_limit while the store goes down and comes back (SpecRLFault)
RLFaultNext ==
    \/ \E ip \in {ClientIp, None}, role \in {None, "analyst"} :
          CheckRateLimit(QueryIdentifier(1), "query", ip, 1, role)
    \/ Tick
    \/ StoreDown
    \/ StoreUp

SpecRLFault == RLOnlyInit /\ [][RLFaultNext]_vars

(***************************************************************************)
(* _check_sliding_window called at the same time in several worker         *)
(* processes that share the store (SpecRLConc).  Inside one process the    *)
(* function runs without suspending; between processes the GET and the SET *)
(* of the store are separate Redis commands, so another process's commands *)
(* can fall between them.                                                  *)
(***************************************************************************)
Procs == {1, 2}

IdleProc == [pc |-> "idle", identifier |-> None, rule_type |-> None, at |-> 0,
             cleaned_data |-> EmptyDict, allowed |-> TRUE]

\* lines 128-157: now, cache_service.get, clean, count, and the denial
SlidingWindowGet(p, identifier, rule_type) ==
    /\ procs[p].pc = "idle"
    /\ LET rule == _get_rule_for_type(rule_type, None)
           cleaned_data == CleanedData(store, identifier, rule)
           denied == WindowDenies(SumValues(cleaned_data), rule)
       IN procs' = [procs EXCEPT ![p] =
                       [pc |-> IF denied THEN "idle" ELSE "counted",
                        identifier |-> identifier, rule_type |-> rule_type,
                        at |-> now, cleaned_data |-> cleaned_data,
                        allowed |-> ~denied]]
    /\ UNCHANGED <<rlvars, svcvars, pool_reqs, pool_hist, worker, audit_hist, analyzer, sweeper, conns>>

\* lines 159-177: add the current request, cache_service.set, allowed=True
SlidingWindowSet(p) ==
    /\ procs[p].pc = "counted"
    /\ LET me == procs[p]
           rule == _get_rule_for_type(me.rule_type, None)
           current_minute == Minute(me.at)
           added == DictPut(me.cleaned_data, current_minute,
                            DictGet(me.cleaned_data, current_minute, 0) + 1)
       IN /\ store' = CacheSet(store, WindowKey(me.identifier, rule), added,
                               rule.window_seconds + WindowSlack)
          /\ admits' = RecordAdmit(admits, me.identifier, rule)
    /\ procs' = [procs EXCEPT ![p].pc = "idle"]
    /\ UNCHANGED <<now, is_connected, blocked_ips, blocked_users, rl_last, rl_hist,
                   svcvars, pool_reqs, pool_hist, worker, audit_hist, analyzer, sweeper, conns>>

\* time passes while calls may be in flight
ConcTick ==
    /\ now + TickSeconds <= MaxTime
    /\ now' = now + TickSeconds
    /\ store' = Expire(store, now')
    /\ admits' = ForgetAdmits(admits, now')
    /\ UNCHANGED <<is_connected, blocked_ips, blocked_users, rl_last, rl_hist,
                   svcvars, extvars>>

ConcInit ==
    /\ RLInit /\ SvcInit /\ approval_required = FALSE
    /\ procs = [p \in Procs |-> IdleProc]
    /\ pool_reqs = EmptyDict /\ pool_hist = EmptyDict
    /\ worker = EmptyDict /\ audit_hist = EmptyDict /\ analyzer = EmptyDict /\ sweeper = NoSweeper /\ conns = EmptyDict

ConcNext ==
    \/ \E p \in Procs : SlidingWindowGet(p, QueryIdentifier(1), "query")
    \/ \E p \in Procs : SlidingWindowSet(p)
    \/ ConcTick

SpecRLConc == ConcInit /\ [][ConcNext]_vars

(***************************************************************************)
(* The connection pools (SpecPool): requests on their way through          *)
(* execute_query and _execute_query_on_server in one event loop, the       *)
(* administrator rotating a backend's credentials or host, and the         *)
(* periodic _monitor_connections.  A request can be suspended between      *)
(* reading its server row, getting its pool and running on it;             *)
(* _get_connection_pool and one pass of the monitor contain no await.      *)
(***************************************************************************)
PoolReqIds == {1, 2}
RotatedServers == {1}

\* every pool key the backends of the model can have
AllPoolKeys ==
    {<<sid, host, 5432, "app">> : sid \in ServerIds, host \in {"db1", "db1b", "db2"}}

NoServer ==
    [is_active |-> FALSE, environment |-> None, allowed_roles |-> {},
     host |-> None, port |-> 0, database |-> None,
     username |-> None, password |-> None]

IdlePoolReq ==
    [pc |-> "idle", server_id |-> 0, server |-> NoServer, engine |-> NoEngine,
     first |-> FALSE, made |-> FALSE, stale |-> FALSE, attempts |-> 0]

NoPoolHistory ==
    [created |-> EmptyDict, refused |-> {}, evictions |-> EmptyDict, evicted |-> {},
     checked |-> [failed |-> {}, healthy |-> {}, left |-> {}],
     last_run |-> [ran |-> FALSE, ok |-> TRUE, engine_cs |-> << >>,
                   server_cs |-> << >>]]

\* a pass that finds the failing pools and leaves them registered
_monitor_connections_keeps(pools, failing) == pools

\* one pass of _monitor_connections: failing holds the keys of the pools
\* whose SELECT 1 raises
_monitor_connections(pools, failing) ==
    [k \in DOMAIN pools \ failing |-> pools[k]]

\* execute_query lines 85-97: the request reads its server row
PoolLoad(i, server_id) ==
    /\ pool_reqs[i].pc = "idle"
    /\ servers[server_id].is_active
    /\ pool_reqs' = [pool_reqs EXCEPT ![i] =
           [IdlePoolReq EXCEPT !.pc = "loaded", !.server_id = server_id,
                               !.server = servers[server_id],
                               !.first = ~PoolLookup(connection_pools,
                                            PoolKey(server_id, servers[server_id]))]]
    /\ UNCHANGED <<rlvars, svcvars, procs, pool_hist, worker, audit_hist, analyzer, sweeper, conns>>

\* _execute_query_on_server lines 339-344: pool = await _get_connection_pool
PoolGet(i, created) ==
    /\ pool_reqs[i].pc = "loaded"
    /\ LET me == pool_reqs[i]
           pool_key == PoolKey(me.server_id, me.server)
           got == _get_connection_pool(connection_pools, stats, me.server_id,
                                       me.server, created)
       IN /\ PoolLookup(connection_pools, pool_key) => created
          /\ got.made => stats.total_connections < MaxPools
          /\ connection_pools' = got.pools
          /\ stats' = got.stats
          /\ pool_hist' = IF got.made
                          THEN [pool_hist EXCEPT !.created =
                                   DictPut(@, pool_key, DictGet(@, pool_key, 0) + 1)]
                          ELSE IF got.engine = NoEngine
                          THEN [pool_hist EXCEPT !.refused = @ \cup {pool_key}]
                          ELSE pool_hist
          /\ pool_reqs' = [pool_reqs EXCEPT ![i] =
                 IF got.engine = NoEngine
                 THEN IdlePoolReq
                 ELSE [me EXCEPT !.pc = "got", !.engine = got.engine,
                                 !.made = got.made,
                                 !.stale = got.engine.serial \in pool_hist.evicted]]
    /\ UNCHANGED <<rlvars, approval_required, servers, users, executions,
                   audit_queue, req, resp, calls, last_exec,
                   procs, worker, audit_hist, analyzer, sweeper, conns>>

\* lines 346-352: the query runs on the pool (and succeeds or fails); the
\* request then returns
PoolRun(i, ok) ==
    /\ pool_reqs[i].pc = "got"
    /\ LET me == pool_reqs[i]
       IN /\ pool_hist' = [pool_hist EXCEPT !.last_run =
                 [ran |-> TRUE, ok |-> ok,
                  engine_cs |-> me.engine.connection_string,
                  server_cs |-> _build_connection_string(me.server)]]
          /\ pool_reqs' = [pool_reqs EXCEPT ![i] =
                 [me EXCEPT !.pc = "idle", !.attempts = @ + 1]]
    /\ UNCHANGED <<rlvars, svcvars, procs, worker, audit_hist, analyzer, sweeper, conns>>

\* the administrator changes the password of a backend
RotateCredentials(server_id) ==
    /\ servers[server_id].password = "secret1"
    /\ servers' = [servers EXCEPT ![server_id].password = "secret2"]
    /\ UNCHANGED <<rlvars, approval_required, users, executions, connection_pools,
                   stats, audit_queue, req, resp, calls, last_exec, extvars>>

\* the administrator moves a backend to another host
RotateHost(server_id) ==
    /\ servers[server_id].host = "db1"
    /\ servers' = [servers EXCEPT ![server_id].host = "db1b"]
    /\ UNCHANGED <<rlvars, approval_required, users, executions, connection_pools,
                   stats, audit_queue, req, resp, calls, last_exec, extvars>>

\* one pass of _monitor_connections over the registered pools
HealthCheck(failing) ==
    /\ DOMAIN connection_pools # {}
    /\ failing \subseteq DOMAIN connection_pools
    /\ connection_pools' = _monitor_connections(connection_pools, failing)
    /\ LET serials(keys) == {connection_pools[k].serial : k \in keys}
       IN pool_hist' = [pool_hist EXCEPT
              !.evicted = @ \cup serials(failing),
              !.evictions = [k \in DOMAIN @ \cup failing |->
                                DictGet(@, k, 0) + IF k \in failing THEN 1 ELSE 0],
              !.checked = [failed |-> serials(failing),
                           healthy |-> serials(DOMAIN connection_pools \ failing),
                           left |-> {connection_pools'[k].serial :
                                        k \in DOMAIN connection_pools'}]]
    /\ UNCHANGED <<rlvars, approval_required, servers, users, executions, stats,
                   audit_queue, req, resp, calls, last_exec,
                   procs, pool_reqs, worker, audit_hist, analyzer, sweeper, conns>>

PoolInit ==
    /\ RLInit /\ SvcInit /\ approval_required = FALSE
    /\ pool_reqs = [i \in PoolReqIds |-> IdlePoolReq]
    /\ pool_hist = NoPoolHistory
    /\ procs = EmptyDict /\ worker = EmptyDict /\ audit_hist = EmptyDict
    /\ analyzer = EmptyDict /\ sweeper = NoSweeper /\ conns = EmptyDict

PoolNext ==
    \/ \E i \in PoolReqIds, sid \in RotatedServers : PoolLoad(i, sid)
    \/ \E i \in PoolReqIds, created \in BOOLEAN : PoolGet(i, created)
    \/ \E i \in PoolReqIds, ok \in BOOLEAN : PoolRun(i, ok)
    \/ \E sid \in RotatedServers : RotateCredentials(sid)
    \/ \E sid \in RotatedServers : RotateHost(sid)
    \/ \E failing \in SUBSET AllPoolKeys : HealthCheck(failing)

SpecPool == PoolInit /\ [][PoolNext]_vars

(***************************************************************************)
(* The audit queue and its worker (SpecAudit, SpecAuditFair): callers       *)
(* record events with log_event while _audit_worker takes them from the    *)
(* queue and hands them to _process_audit_entry.                           *)
(***************************************************************************)
\* asyncio.Queue.full()
QueueFull(q) == AuditQueueMaxsize > 0 /\ Len(q) >= AuditQueueMaxsize

\* a get that takes the newest entry
QueueGet_lifo(q) == [item |-> q[Len(q)], queue |-> SubSeq(q, 1, Len(q) - 1)]

\* asyncio.Queue.get(): the oldest entry, and the queue without it
QueueGet(q) == [item |-> Head(q), queue |-> Tail(q)]

NoEntry ==
    [action |-> None, user_id |-> 0, resource_id |-> 0, severity |-> None,
     risk_score |-> 0, is_suspicious |-> FALSE]

IdleWorker == [pc |-> "waiting", audit_data |-> NoEntry, id |-> 0]

\* n events recorded; ids[k] numbers the k-th entry waiting in the queue;
\* log[k] is the k-th event as enqueued; handed lists what the worker passed
\* to persistence; blocked counts the callers suspended in put()
NoAuditHistory ==
    [n |-> 0, ids |-> << >>, log |-> << >>, handed |-> << >>, blocked |-> 0]

\* the events the callers record: what execute_query logs, an administrative
\* deletion flagged as a privilege escalation, and a failure seen from an
\* address outside the private ranges
Events ==
    { [action |-> "query_executed", severity |-> "info", ip_address |-> None,
       details |-> {}],
      [action |-> "query_failed", severity |-> "error", ip_address |-> None,
       details |-> {}],
      [action |-> "user_deleted", severity |-> "warning", ip_address |-> "10.0.0.1",
       details |-> {"privilege_escalation"}],
      [action |-> "query_failed", severity |-> "error",
       ip_address |-> "203.0.113.5", details |-> {}] }

\* a caller records an event: log_event up to its return
LogEvent(event) ==
    /\ audit_hist.n < MaxEvents
    /\ LET logged == log_event(audit_queue, store, event.action, 1, event.ip_address,
                               1, event.details, event.severity)
       IN IF QueueFull(audit_queue)
          THEN /\ audit_hist' = [audit_hist EXCEPT !.blocked = @ + 1, !.n = @ + 1]
               /\ UNCHANGED <<audit_queue, store>>
          ELSE /\ audit_queue' = logged.queue
               /\ store' = logged.store
               /\ audit_hist' = [audit_hist EXCEPT
                      !.n = @ + 1,
                      !.ids = Append(@, audit_hist.n + 1),
                      !.log = Append(@, logged.queue[Len(logged.queue)])]
    /\ UNCHANGED <<now, is_connected, blocked_ips, blocked_users, rl_last, admits,
                   rl_hist, approval_required, servers, users, executions,
                   connection_pools, stats, req, resp, calls, last_exec,
                   procs, pool_reqs, pool_hist, worker, analyzer, sweeper, conns>>

\* _process_audit_entry: the condition of _trigger_security_alert
_triggers_alert(audit_data) ==
    audit_data.is_suspicious \/ audit_data.risk_score > AlertThreshold

\* _audit_worker: audit_data = await self.audit_queue.get()
WorkerGet ==
    /\ worker.pc = "waiting"
    /\ audit_queue # << >>
    /\ worker' = [pc |-> "processing", audit_data |-> QueueGet(audit_queue).item,
                  id |-> QueueGet(audit_hist.ids).item]
    /\ audit_queue' = QueueGet(audit_queue).queue
    /\ audit_hist' = [audit_hist EXCEPT !.ids = QueueGet(@).queue]
    /\ UNCHANGED <<rlvars, approval_required, servers, users, executions,
                   connection_pools, stats, req, resp, calls, last_exec,
                   procs, pool_reqs, pool_hist, analyzer, sweeper, conns>>

\* _audit_worker: await self._process_audit_entry(audit_data); task_done().
\* persisted says whether db.add / db.commit succeed; their exception is
\* caught and logged inside _process_audit_entry
WorkerProcess(persisted) ==
    /\ worker.pc = "processing"
    /\ audit_hist' = [audit_hist EXCEPT !.handed =
           Append(@, [id |-> worker.id, audit_data |-> worker.audit_data,
                      persisted |-> persisted,
                      alerts |-> IF persisted /\ _triggers_alert(worker.audit_data)
                                 THEN 1 ELSE 0])]
    /\ worker' = IdleWorker
    /\ UNCHANGED <<rlvars, svcvars, procs, pool_reqs, pool_hist, analyzer, sweeper, conns>>

AuditInit ==
    /\ RLInit /\ SvcInit /\ approval_required = FALSE
    /\ worker = IdleWorker
    /\ audit_hist = NoAuditHistory
    /\ procs = EmptyDict /\ pool_reqs = EmptyDict /\ pool_hist = EmptyDict
    /\ analyzer = EmptyDict /\ sweeper = NoSweeper /\ conns = EmptyDict

AuditNext ==
    \/ \E event \in Events : LogEvent(event)
    \/ WorkerGet
    \/ \E persisted \in BOOLEAN : WorkerProcess(persisted)

\* the worker may stall for ever
SpecAudit == AuditInit /\ [][AuditNext]_vars

\* the worker task is scheduled whenever it can run
SpecAuditFair ==
    /\ AuditInit /\ [][AuditNext]_vars
    /\ WF_vars(WorkerGet)
    /\ WF_vars(\E persisted \in BOOLEAN : WorkerProcess(persisted))

(***************************************************************************)
(* analyze_query applied to a query and then to a second query that        *)
(* differs from it in one of the Variations                                *)
(***************************************************************************)
Roles == {"admin", "analyst", "powerbi", "readonly"}
Environments == {"production", "staging"}

NoHash == <<"none", << >> >>
NoResult == [valid |-> FALSE, error |-> None, risk_level |-> None]

\* the query_hash analyze_query computes at line 76
HashOf(query) ==
    IF _normalize_query(_clean_query(query)) = << >> THEN NoHash
    ELSE _generate_query_hash(_normalize_query(_clean_query(query)))

AnalyzerInputs ==
    { [pc |-> "input", query |-> q, variation |-> v, user_role |-> r,
       environment |-> e, subtypes |-> st, result |-> NoResult, query_hash |-> NoHash,
       other_result |-> NoResult, other_hash |-> NoHash] :
          q \in BaseQueries, v \in Variations, r \in Roles, e \in Environments,
          st \in BOOLEAN }

\* analyze_query(query, user_role, server_environment)
AnalyzeQuery ==
    /\ analyzer.pc = "input"
    /\ analyzer' = [analyzer EXCEPT
           !.pc = "analysed",
           !.result = QueryAnalyzer_analyze_query(analyzer.query, analyzer.user_role,
                                                  analyzer.environment,
                                                  analyzer.subtypes),
           !.query_hash = HashOf(analyzer.query)]
    /\ UNCHANGED <<rlvars, svcvars, procs, pool_reqs, pool_hist, worker, audit_hist,
                   sweeper, conns>>

\* analyze_query on the second query
AnalyzeVariant ==
    /\ analyzer.pc = "analysed"
    /\ LET other == Vary(analyzer.variation, analyzer.query)
       IN analyzer' = [analyzer EXCEPT
              !.pc = "compared",
              !.other_result = QueryAnalyzer_analyze_query(other, analyzer.user_role,
                                                           analyzer.environment,
                                                           analyzer.subtypes),
              !.other_hash = HashOf(other)]
    /\ UNCHANGED <<rlvars, svcvars, procs, pool_reqs, pool_hist, worker, audit_hist,
                   sweeper, conns>>

AnalyzerInit ==
    /\ RLInit /\ SvcInit
    /\ analyzer \in AnalyzerInputs
    /\ sweeper = NoSweeper /\ conns = EmptyDict
    /\ procs = EmptyDict /\ pool_reqs = EmptyDict /\ pool_hist = EmptyDict
    /\ worker = EmptyDict /\ audit_hist = EmptyDict

AnalyzerNext == AnalyzeQuery \/ AnalyzeVariant

SpecAnalyzer == AnalyzerInit /\ [][AnalyzerNext]_vars

(***************************************************************************)
(* POST /execute (api/proxy.py) and SQLProxyService.execute_query          *)
(***************************************************************************)
\* the locals of execute_query on entry
NewRequest(user_id, server_id, q, parameters, timeout, max_rows, use_cache) ==
    [Idle EXCEPT !.pc = "called", !.user_id = user_id, !.server_id = server_id,
                 !.query = q, !.parameters = parameters, !.timeout = timeout,
                 !.max_rows = max_rows, !.use_cache = use_cache,
                 !.queue_len = Len(audit_queue),
                 !.failed_at_call = stats.failed_queries]

\* POST /execute up to the call of sql_proxy_service.execute_query
ApiExecute(user_id, server_id, q, parameters, timeout, max_rows, use_cache) ==
    /\ req.pc = "idle"
    /\ calls < MaxCalls
    /\ user_id \in DOMAIN users
    /\ CacheGet(store, <<"violations", QueryIdentifier(user_id)>>, 0) < MaxDenials
    /\ LET r == check_rate_limit(store, blocked_ips, blocked_users,
                                 QueryIdentifier(user_id), "query", ClientIp, user_id,
                                 UserRoleValue(users[user_id].role))
           found == server_id \in DOMAIN servers /\ servers[server_id].is_active
           enqueued == Len(audit_queue') - Len(audit_queue)
       IN /\ store' = r.store
          /\ blocked_ips' = r.blocked_ips
          /\ blocked_users' = r.blocked_users
          /\ audit_queue' = audit_queue
          /\ IF ~r.allowed
             THEN /\ resp' = Refusal(429, r.path, user_id, server_id, r.retry_after,
                                     enqueued)
                  /\ UNCHANGED <<req, calls>>
             ELSE IF ~found
             THEN /\ resp' = Refusal(404, None, user_id, server_id, 0, enqueued)
                  /\ calls' = calls + 1
                  /\ UNCHANGED req
             ELSE /\ req' = NewRequest(user_id, server_id, q, parameters, timeout,
                                       max_rows, use_cache)
                  /\ calls' = calls + 1
                  /\ UNCHANGED resp
    /\ UNCHANGED <<extvars, now, is_connected, rl_last, admits, rl_hist, approval_required, servers,
                   users, executions, connection_pools, stats, last_exec>>

\* sql_proxy_service.execute_query is called (by POST /execute after its own
\* checks, or by any other caller)
Call(user_id, server_id, q, parameters, timeout, max_rows, use_cache) ==
    /\ req.pc = "idle"
    /\ calls < MaxCalls
    /\ req' = NewRequest(user_id, server_id, q, parameters, timeout, max_rows,
                         use_cache)
    /\ calls' = calls + 1
    /\ UNCHANGED <<extvars, rlvars, approval_required, servers, users, executions,
                   connection_pools, stats, audit_queue, resp, last_exec>>

\* an execute_query that ignores requires_approval
ApprovalGate_open(analysis) == FALSE

\* execute_query, lines 113-115: if analysis_result["requires_approval"]: raise
ApprovalGate(analysis) == analysis.requires_approval

\* execute_query, lines 84-139: look up, check, analyse, create the record
SvcBegin ==
    /\ req.pc = "called"
    /\ LET found == req.server_id \in DOMAIN servers /\ servers[req.server_id].is_active
           known == req.user_id \in DOMAIN users
           server == servers[req.server_id]
           user == users[req.user_id]
           analysis == analyze_query(req.query, UserRoleValue(user.role),
                                     server.environment)
           execution_id == Cardinality(DOMAIN executions) + 1
           raise(kind) == /\ req' = [req EXCEPT !.pc = "handler", !.exc = Error(kind)]
                          /\ UNCHANGED executions
       IN IF ~found THEN raise("server_not_found")
          ELSE IF ~known THEN raise("user_not_found")
          ELSE IF ~_check_server_permissions(user, server) THEN raise("permission_denied")
          ELSE IF ~analysis.valid THEN raise("validation_failed")
          ELSE IF ApprovalGate(analysis)
          THEN /\ req' = [req EXCEPT !.pc = "handler", !.analysis = analysis,
                                     !.exc = Error("requires_approval")]
               /\ UNCHANGED executions
          ELSE IF "query_hash" \notin analysis.metadata
          THEN /\ req' = [req EXCEPT !.pc = "handler", !.analysis = analysis,
                                     !.exc = Error("KeyError")]
               /\ UNCHANGED executions
          ELSE /\ executions' = DictPut(executions, execution_id,
                     [status |-> "PENDING", user_id |-> req.user_id,
                      server_id |-> req.server_id, query_hash |-> analysis.query_hash,
                      parameters |-> req.parameters,
                      is_cached |-> FALSE, error_message |-> NoError])
               /\ req' = [req EXCEPT !.pc = "created", !.analysis = analysis,
                                     !.execution_id = execution_id]
    /\ UNCHANGED <<extvars, rlvars, approval_required, servers, users, connection_pools, stats,
                   audit_queue, resp, calls, last_exec>>

\* execute_query, lines 141-193: the cache, and the answer on a hit
SvcCheckCache ==
    /\ req.pc = "created"
    /\ LET reads == ReadsCache(req.use_cache, req.analysis.query_type)
           key == ResultKey(req.analysis.query_hash, req.server_id, req.parameters)
           hit == reads /\ CacheHas(store, key)
           cached_result == CacheGet(store, key, None)
           before == DictGet(last_exec, key, NoPrior)
           r == [req EXCEPT !.cache_gets = IF reads THEN @ + 1 ELSE @,
                            !.outcome = IF hit THEN "cache_hit" ELSE @,
                            !.prior = [before EXCEPT
                                         !.age = now - before.at,
                                         !.connected = @ /\ is_connected]]
           logged == log_event(audit_queue, store, "query_executed_cached",
                               req.user_id, None, req.execution_id, {}, "info")
       IN IF hit
          THEN /\ executions' = [executions EXCEPT
                                   ![req.execution_id].status = "SUCCESS",
                                   ![req.execution_id].is_cached = TRUE]
               /\ stats' = [stats EXCEPT !.cached_queries = @ + 1,
                                         !.total_queries = @ + 1]
               /\ audit_queue' = logged.queue
               /\ store' = logged.store
               /\ resp' = Answer(r, 200, TRUE, TRUE, cached_result.data,
                                 cached_result.columns, NoError, audit_queue', stats')
               /\ req' = Idle
          ELSE /\ req' = [r EXCEPT !.pc = "pool"]
               /\ UNCHANGED <<executions, stats, audit_queue, store, resp>>
    /\ UNCHANGED <<extvars, now, is_connected, blocked_ips, blocked_users, rl_last, admits, rl_hist,
                   approval_required, servers, users, connection_pools, calls,
                   last_exec>>

\* _execute_query_on_server, lines 339-344, with _get_connection_pool:
\* created says whether create_engine and its SELECT 1 succeed
SvcGetPool(created) ==
    /\ req.pc = "pool"
    /\ LET pool_key == PoolKey(req.server_id, servers[req.server_id])
           got == _get_connection_pool(connection_pools, stats, req.server_id,
                                       servers[req.server_id], created)
       IN /\ pool_key \in DOMAIN connection_pools => created
          /\ connection_pools' = got.pools
          /\ stats' = got.stats
          /\ IF got.engine # NoEngine
             THEN req' = [req EXCEPT !.pc = "execute", !.pool_gets = @ + 1]
             ELSE req' = [req EXCEPT !.pc = "handler", !.pool_gets = @ + 1,
                                     !.exc = Error("pool_creation_failed")]
    /\ UNCHANGED <<extvars, rlvars, approval_required, servers, users, executions,
                   audit_queue, resp, calls, last_exec>>

\* timeout or settings.QUERY_TIMEOUT; max_rows or settings.MAX_RESULT_ROWS
EffectiveTimeout(r) == IF r.timeout = 0 THEN QUERY_TIMEOUT ELSE r.timeout
EffectiveMaxRows(r) == IF r.max_rows = 0 THEN MAX_RESULT_ROWS ELSE r.max_rows

\* an _execute_with_pool that reports the failure without the exception's text
ExecResult_nomessage(outcome, backend, query_type, max_rows, e) ==
    [success |-> outcome = "ok", data |-> << >>, columns |-> << >>, row_count |-> 0,
     rows_affected |-> 0, result_size_bytes |-> 0, error |-> Error(outcome)]

\* the dict returned by _execute_with_pool; e is the exception that
\* connection.execute raises when outcome is not "ok"
ExecResult(outcome, backend, query_type, max_rows, e) ==
    LET data == FetchMany(backend.rows, max_rows)
    IN IF outcome # "ok"
       THEN [success |-> FALSE, data |-> << >>, columns |-> << >>, row_count |-> 0,
             rows_affected |-> 0, result_size_bytes |-> 0,
             error |-> [Error(outcome) EXCEPT !.message = str(e)]]
       ELSE IF query_type = "SELECT"
       THEN [success |-> TRUE, data |-> data, columns |-> backend.columns,
             row_count |-> Len(data), rows_affected |-> 0,
             result_size_bytes |-> SizeBytes(data), error |-> NoError]
       ELSE [success |-> TRUE, data |-> << >>, columns |-> << >>, row_count |-> 0,
             rows_affected |-> 1, result_size_bytes |-> 0, error |-> NoError]

\* _execute_with_pool, lines 371-372: pool.connect() and the counter
AcquireConnection(active_connections) == active_connections + 1

\* a finally block that closes the connection and leaves the counter alone
ReleaseConnection_kept(active_connections) == active_connections

\* _execute_with_pool, lines 426-429: finally, connection.close() and the counter
ReleaseConnection(active_connections) == active_connections - 1

\* the status execute_query stores for a result of _execute_query_on_server
StatusOfResult(result) == IF result.success THEN "SUCCESS" ELSE "FAILED"

\* the status the exception handler of execute_query stores
StatusOfException(exc) == "FAILED"

\* execute_query, lines 195-278, with _execute_with_pool under asyncio.wait_for.
\* outcome: "ok", "driver_error" (execute raises, lines 414-425) or "timeout"
\* (wait_for expires); raise is what the driver raises on "driver_error".
SvcExecute(outcome, backend, raise) ==
    /\ req.pc = "execute"
    /\ LET query_type == req.analysis.query_type
           key == ResultKey(req.analysis.query_hash, req.server_id, req.parameters)
           e == Raised(raise.cls, raise.orig,
                       IF outcome = "driver_error" THEN req.query ELSE None)
           result == ExecResult(outcome, backend, query_type, EffectiveMaxRows(req), e)
           writes == WritesCache(result, query_type)
           cached == IF writes
                     THEN _cache_result(store, req.analysis.query_hash, req.server_id,
                                        req.parameters, result)
                     ELSE store
           r == [req EXCEPT !.outcome = outcome, !.raised = e,
                            !.connects = @ + 1,
                            !.cache_sets = IF writes THEN @ + 1 ELSE @]
           logged == log_event(audit_queue, cached, "query_executed", req.user_id,
                               None, req.execution_id, {},
                               IF result.success THEN "info" ELSE "warning")
       IN IF outcome = "timeout"
          THEN /\ req' = [r EXCEPT !.pc = "handler",
                                   !.exc = [Error("timeout") EXCEPT
                                              !.timeout = EffectiveTimeout(req)]]
               /\ UNCHANGED <<executions, stats, audit_queue, store, resp, last_exec>>
          ELSE /\ executions' = [executions EXCEPT
                                   ![req.execution_id].status = StatusOfResult(result),
                                   ![req.execution_id].error_message = result.error,
                                   ![req.execution_id].is_cached = FALSE]
               /\ stats' = [stats EXCEPT
                              !.active_connections =
                                  ReleaseConnection(AcquireConnection(@)),
                              !.total_queries = @ + 1,
                              !.successful_queries = IF result.success THEN @ + 1 ELSE @,
                              !.failed_queries = IF result.success THEN @ ELSE @ + 1]
               /\ audit_queue' = logged.queue
               /\ store' = logged.store
               /\ last_exec' = IF result.success /\ query_type = "SELECT"
                               THEN DictPut(last_exec, key,
                                        [known |-> TRUE, data |-> result.data,
                                         columns |-> result.columns,
                                         row_count |-> result.row_count,
                                         result_size_bytes |-> result.result_size_bytes,
                                         at |-> now, connected |-> is_connected,
                                         age |-> 0])
                               ELSE last_exec
               /\ resp' = Answer(r, 200, result.success, FALSE, result.data,
                                 result.columns, result.error, audit_queue', stats')
               /\ req' = Idle
    /\ UNCHANGED <<extvars, now, is_connected, blocked_ips, blocked_users, rl_last, admits, rl_hist,
                   approval_required, servers, users, connection_pools, calls>>

\* execute_query, lines 280-327: the exception handler
SvcHandler ==
    /\ req.pc = "handler"
    /\ LET logged == log_event(audit_queue, store, "query_failed", req.user_id,
                               None, req.execution_id, {}, "error")
       IN /\ executions' = IF req.execution_id # 0
                           THEN [executions EXCEPT
                                   ![req.execution_id].status = StatusOfException(req.exc),
                                   ![req.execution_id].error_message = req.exc]
                           ELSE executions
          /\ stats' = [stats EXCEPT !.total_queries = @ + 1, !.failed_queries = @ + 1]
          /\ audit_queue' = logged.queue
          /\ store' = logged.store
          /\ resp' = Answer([req EXCEPT !.outcome = req.exc.kind], 200, FALSE, FALSE,
                            << >>, << >>, req.exc, audit_queue', stats')
          /\ req' = Idle
    /\ UNCHANGED <<extvars, now, is_connected, blocked_ips, blocked_users, rl_last, admits, rl_hist,
                   approval_required, servers, users, connection_pools, calls,
                   last_exec>>

\* the cache store becomes unreachable / reachable again
Next ==
    \/ \E u \in UserIds, sid \in ServerIds, q \in Queries, o \in Options :
          Call(u, sid, q, o.parameters, o.timeout, o.max_rows, o.use_cache)
    \/ SvcBegin
    \/ SvcCheckCache
    \/ \E created \in BOOLEAN : SvcGetPool(created)
    \/ \E outcome \in {"ok", "driver_error", "timeout"},
          backend \in BackendResults :
          \E raise \in RaisesFor(outcome) : SvcExecute(outcome, backend, raise)
    \/ SvcHandler
    \/ Tick
    \/ \E sid \in RetiredServers : DeactivateServer(sid)
    \/ \E u \in RemovedUsers : DeleteUser(u)
    \/ StoreDown
    \/ StoreUp

Spec == Init /\ [][Next]_vars

\* POST /execute in front of the service
ApiNext ==
    \/ \E u \in UserIds, sid \in ServerIds, q \in {"sel", "empty"} :
          ApiExecute(u, sid, q, DefaultOptions.parameters, DefaultOptions.timeout,
                     DefaultOptions.max_rows, DefaultOptions.use_cache)
    \/ SvcBegin
    \/ SvcCheckCache
    \/ \E created \in BOOLEAN : SvcGetPool(created)
    \/ \E outcome \in {"ok", "driver_error", "timeout"},
          backend \in BackendResults :
          \E raise \in RaisesFor(outcome) : SvcExecute(outcome, backend, raise)
    \/ SvcHandler
    \/ Tick
    \/ \E sid \in RetiredServers : DeactivateServer(sid)

SpecApi == Init /\ [][ApiNext]_vars

(***************************************************************************)
(* Two users, bound parameters and POST /query/{execution_id}/cancel       *)
(* (api/proxy.py) beside execute_query (SpecMulti).  The cancel endpoint   *)
(* is served while a request is in flight; resp holds its answer with      *)
(* via = "cancel".                                                         *)
(***************************************************************************)
\* the authenticated users who call: user 1 (READONLY) and an administrator
Callers == {1, 2}
MultiUsers == (1 :> [role |-> "READONLY"]) @@ (2 :> [role |-> "ADMIN"])

\* requests without and with bound parameters
MultiOptions ==
    { [parameters |-> None, timeout |-> 0, max_rows |-> 0, use_cache |-> TRUE],
      [parameters |-> "id=7", timeout |-> 0, max_rows |-> 0, use_cache |-> TRUE] }

\* a cancel endpoint that does not look at the status of the record
CancelFinds_anystatus(execution, user_id) == execution.user_id = user_id

\* cancel_query_execution, lines 293-297: the filter of the query
CancelFinds(execution, user_id) ==
    execution.user_id = user_id /\ execution.status = "RUNNING"

\* cancel_query_execution, lines 285-331: the status of the answer, and the
\* table, the audit queue and the store it leaves
cancel_query_execution(execs, q, s, execution_id, user_id) ==
    LET found == /\ execution_id \in DOMAIN execs
                 /\ CancelFinds(execs[execution_id], user_id)
        logged == log_event(q, s, "query_cancelled", user_id, None, execution_id,
                            {}, "info")
    IN IF found
       THEN [status |-> 200,
             executions |-> [execs EXCEPT
                               ![execution_id].status = "CANCELLED",
                               ![execution_id].error_message = Error("cancelled")],
             queue |-> logged.queue, store |-> logged.store]
       ELSE [status |-> 404, executions |-> execs, queue |-> q, store |-> s]

CancelQueryExecution(execution_id, user_id) ==
    /\ LET r == cancel_query_execution(executions, audit_queue, store,
                                       execution_id, user_id)
       IN /\ executions' = r.executions
          /\ audit_queue' = r.queue
          /\ store' = r.store
          /\ resp' = [Refusal(r.status, None, user_id, 0, 0,
                              Len(r.queue) - Len(audit_queue))
                        EXCEPT !.via = "cancel", !.execution_id = execution_id]
    /\ UNCHANGED <<extvars, now, is_connected, blocked_ips, blocked_users, rl_last,
                   admits, rl_hist, approval_required, servers, users,
                   connection_pools, stats, req, calls, last_exec>>

MultiInit ==
    /\ RLInit /\ ExtInit
    /\ approval_required = FALSE
    /\ servers = InitialServers
    /\ users = MultiUsers
    /\ executions = EmptyDict
    /\ connection_pools = EmptyDict
    /\ stats = InitialStats
    /\ audit_queue = << >>
    /\ req = Idle
    /\ resp = NoResponse
    /\ calls = 0
    /\ last_exec = EmptyDict

MultiNext ==
    \/ \E u \in Callers, sid \in ServerIds, q \in {"sel", "upd"}, o \in MultiOptions :
          Call(u, sid, q, o.parameters, o.timeout, o.max_rows, o.use_cache)
    \/ SvcBegin
    \/ SvcCheckCache
    \/ \E created \in BOOLEAN : SvcGetPool(created)
    \/ \E outcome \in {"ok", "driver_error", "timeout"},
          backend \in BackendResults :
          \E raise \in RaisesFor(outcome) : SvcExecute(outcome, backend, raise)
    \/ SvcHandler
    \/ \E execution_id \in 1..MaxCalls, u \in Callers :
          CancelQueryExecution(execution_id, u)

SpecMulti == MultiInit /\ [][MultiNext]_vars

(***************************************************************************)
(* _execute_with_pool, statement by statement.  The coroutine holds no     *)
(* await: once the event loop has started it, it runs to its return, so at *)
(* most one call is between its first and its last statement.  wait_for    *)
(* can cancel it only before it has started; after that the timeout is     *)
(* seen only when the coroutine has returned.                              *)
(***************************************************************************)
ConnIds == {1, 2}

\* the calls each caller makes in the model
MaxConnCalls == 2

ExecutionPaths == {"success", "driver_error", "unexpected_error"}

IdleConn == [pc |-> "idle", connection |-> "none", path |-> "none",
             acquired |-> 0, released |-> 0, attempts |-> 0,
             timed_out |-> FALSE]

\* the calls that are between the first and the last statement
Inside == {i \in ConnIds : conns[i].pc \in {"connected", "counted", "executed"}}

\* the connections that calls hold
Held == {i \in ConnIds : conns[i].connection = "open"}

\* _execute_query_on_server lines 346-350: wait_for wraps the coroutine in a
\* task, which the event loop starts later
ConnSchedule(i) ==
    /\ conns[i].pc = "idle" /\ conns[i].attempts < MaxConnCalls
    /\ conns' = [conns EXCEPT ![i] = [@ EXCEPT !.pc = "scheduled",
                                        !.connection = "none", !.path = "none",
                                        !.timed_out = FALSE]]
    /\ UNCHANGED <<rlvars, svcvars, procs, pool_reqs, pool_hist, worker,
                   audit_hist, analyzer, sweeper>>

\* the timeout passes while another call keeps the event loop: the task is
\* cancelled before its first statement and wait_for raises TimeoutError
ConnCancel(i) ==
    /\ conns[i].pc = "scheduled" /\ Inside # {}
    /\ conns' = [conns EXCEPT ![i] = [@ EXCEPT !.pc = "idle", !.path = "cancelled",
                                        !.timed_out = TRUE, !.attempts = @ + 1]]
    /\ UNCHANGED <<rlvars, svcvars, procs, pool_reqs, pool_hist, worker,
                   audit_hist, analyzer, sweeper>>

\* lines 369-372: connection = None; connection = pool.connect(), which
\* returns a connection or raises
ConnConnect(i, ok) ==
    /\ conns[i].pc = "scheduled" /\ Inside = {}
    /\ conns' = [conns EXCEPT ![i] =
           IF ok THEN [@ EXCEPT !.pc = "connected", !.connection = "open",
                                !.acquired = @ + 1]
                 ELSE [@ EXCEPT !.pc = "executed", !.path = "connect_error"]]
    /\ UNCHANGED <<rlvars, svcvars, procs, pool_reqs, pool_hist, worker,
                   audit_hist, analyzer, sweeper>>

\* line 373: self.stats["active_connections"] += 1
ConnCount(i) ==
    /\ conns[i].pc = "connected"
    /\ stats' = [stats EXCEPT !.active_connections = AcquireConnection(@)]
    /\ conns' = [conns EXCEPT ![i].pc = "counted"]
    /\ UNCHANGED <<rlvars, approval_required, servers, users, executions,
                   connection_pools, audit_queue, req, resp, calls, last_exec,
                   procs, pool_reqs, pool_hist, worker, audit_hist, analyzer,
                   sweeper>>

\* lines 375-424: the statement is prepared, executed and fetched; the
\* result is built, or SQLAlchemyError or any other Exception is caught
ConnExecute(i, path) ==
    /\ conns[i].pc = "counted"
    /\ conns' = [conns EXCEPT ![i] = [@ EXCEPT !.pc = "executed", !.path = path]]
    /\ UNCHANGED <<rlvars, svcvars, procs, pool_reqs, pool_hist, worker,
                   audit_hist, analyzer, sweeper>>

\* lines 425-429: finally: if connection: connection.close() and the counter
ConnFinally(i) ==
    /\ conns[i].pc = "executed"
    /\ IF conns[i].connection = "open"
       THEN /\ conns' = [conns EXCEPT ![i] = [@ EXCEPT !.pc = "finished",
                                                !.connection = "closed",
                                                !.released = @ + 1]]
            /\ stats' = [stats EXCEPT !.active_connections = ReleaseConnection(@)]
       ELSE /\ conns' = [conns EXCEPT ![i].pc = "finished"]
            /\ UNCHANGED stats
    /\ UNCHANGED <<rlvars, approval_required, servers, users, executions,
                   connection_pools, audit_queue, req, resp, calls, last_exec,
                   procs, pool_reqs, pool_hist, worker, audit_hist, analyzer,
                   sweeper>>

\* lines 346-355: wait_for hands over the result of the finished coroutine,
\* or the timeout has passed meanwhile and the caller gets TimeoutError
ConnReturn(i, timed_out) ==
    /\ conns[i].pc = "finished"
    /\ conns' = [conns EXCEPT ![i] = [@ EXCEPT !.pc = "idle",
                                        !.timed_out = timed_out,
                                        !.attempts = @ + 1]]
    /\ UNCHANGED <<rlvars, svcvars, procs, pool_reqs, pool_hist, worker,
                   audit_hist, analyzer, sweeper>>

ConnInit ==
    /\ RLInit /\ SvcInit /\ approval_required = FALSE
    /\ pool_reqs = EmptyDict /\ pool_hist = EmptyDict
    /\ procs = EmptyDict /\ worker = EmptyDict /\ audit_hist = EmptyDict
    /\ analyzer = EmptyDict /\ sweeper = NoSweeper
    /\ conns = [i \in ConnIds |-> IdleConn]

ConnNext ==
    \/ \E i \in ConnIds : ConnSchedule(i)
    \/ \E i \in ConnIds : ConnCancel(i)
    \/ \E i \in ConnIds, ok \in BOOLEAN : ConnConnect(i, ok)
    \/ \E i \in ConnIds : ConnCount(i)
    \/ \E i \in ConnIds, path \in ExecutionPaths : ConnExecute(i, path)
    \/ \E i \in ConnIds : ConnFinally(i)
    \/ \E i \in ConnIds, timed_out \in BOOLEAN : ConnReturn(i, timed_out)

SpecConn == ConnInit /\ [][ConnNext]_vars

(***************************************************************************)
(* Properties.                                                             *)
(***************************************************************************)

\* C1 (as stated): under a rule of N requests per window, with no block in
\* force and the store reachable, a request that finds N requests already
\* admitted within the window is denied, and a request that finds none
\* admitted within the window is allowed.
C1_NPlusOneDenied ==
    (rl_last.path = "window" /\ rl_last.connected)
        => /\ (rl_last.prior >= rl_last.requests => ~rl_last.allowed)
           /\ (rl_last.prior = 0 => rl_last.allowed)

\* C11 (as stated): whenever the store is unreachable, check_rate_limit
\* allows the request, whatever was recorded before.
C11_FailsOpen ==
    (rl_last.path # "none" /\ ~rl_last.connected) => rl_last.allowed

\* C11 (amended): whenever the store is unreachable, check_rate_limit allows
\* the request whatever the counters held, unless a block of the request's IP
\* address or user id set earlier by this process is still in force; then it
\* denies the request.
C11_FailsOpenUnlessBlocked ==
    (rl_last.path # "none" /\ ~rl_last.connected)
        => (rl_last.allowed
               <=> ~(rl_last.ip_block_in_force \/ rl_last.user_block_in_force))

\* a request admitted with the store unreachable although the window had
\* already admitted as many requests as any rule lets through
C11_Witness ==
    /\ rl_last.path = "window" /\ ~rl_last.connected /\ rl_last.allowed
    /\ rl_last.prior >= BurstLimit(rules["role_analyst"])

\* C12: while a block of the request's IP address or user id is in force the
\* request is denied on the block path and the store (the window counter
\* included) is left as it was; and a request is denied on the block path
\* only while a block is in force, that is for block_duration_seconds of the
\* rule that set the block from the moment it was set.
C12_BlockDeniesWithoutWindow ==
    rl_last.path # "none" =>
        /\ (rl_last.ip_block_in_force \/ rl_last.user_block_in_force)
              => /\ ~rl_last.allowed
                 /\ rl_last.path \in {"ip_block", "user_block"}
                 /\ rl_last.store_unchanged
        /\ rl_last.path \in {"ip_block", "user_block"}
              => (rl_last.ip_block_in_force \/ rl_last.user_block_in_force)

\* a request denied by the block of its user while the store is unreachable
C12_Witness ==
    /\ rl_last.path = "user_block" /\ rl_last.user_block_in_force
    /\ ~rl_last.allowed /\ ~rl_last.connected

\* C13 (as stated): a call sets a block exactly when it is a sliding-window
\* denial that brings the identifier's denials in a row (no admitted request
\* in between) to the threshold.
C13_BlockedAtThresholdInARow ==
    (rl_last.path = "window" /\ rl_last.user_id # 0)
        => (rl_last.sets_user_block
               <=> (~rl_last.allowed /\ rl_last.run >= ViolationThreshold))

\* C14 (as stated): the retry_after of a sliding-window denial is the number
\* of seconds until the oldest counted minute leaves the window.
C14_RetryAfterIsRemainingWindow ==
    (rl_last.path = "window" /\ ~rl_last.allowed)
        => rl_last.retry_after
               = rl_last.oldest + rl_last.window_seconds - rl_last.at

\* C17 (as stated): however the concurrent calls interleave, whenever no call
\* is between its read and its write the window counter holds every admitted
\* request of the window exactly once, and the number of requests admitted
\* within one window never exceeds the rule's limit (stated for the "query"
\* rule, whose burst limit equals its limit).
C17_NoLostUpdate ==
    LET rule == rules["query"]
        identifier == QueryIdentifier(1)
        admitted == AdmittedWithin(admits, identifier, rule, rule.window_seconds)
    IN /\ admitted <= rule.requests
       /\ (\A p \in DOMAIN procs : procs[p].pc = "idle")
              => SumValues(CleanedData(store, identifier, rule)) = admitted

\* C15 (as stated): a request never runs on a pool that was built with
\* connection parameters other than those of the server row the request was
\* given: the engine it runs on connects with the row's username, password,
\* host, port and database.
C15_PoolBuiltWithCurrentParameters ==
    pool_hist.last_run.ran
        => pool_hist.last_run.engine_cs = pool_hist.last_run.server_cs

\* C16: however the requests interleave, at most one engine is created under
\* a pool key for as long as none is evicted from it (creations never exceed
\* evictions plus one), and every request that holds an engine holds the one
\* registered under its pool key unless that engine has been evicted since.
C16_OnePoolPerKey ==
    /\ \A k \in DOMAIN pool_hist.created :
           pool_hist.created[k] <= DictGet(pool_hist.evictions, k, 0) + 1
    /\ \A i \in DOMAIN pool_reqs :
           pool_reqs[i].pc = "got"
               => LET k == PoolKey(pool_reqs[i].server_id, pool_reqs[i].server)
                  IN \/ pool_reqs[i].engine.serial \in pool_hist.evicted
                     \/ /\ k \in DOMAIN connection_pools
                        /\ connection_pools[k] = pool_reqs[i].engine

\* two requests that both found no pool for their backend hold the same engine
C16_Witness ==
    /\ pool_reqs[1].pc = "got" /\ pool_reqs[2].pc = "got"
    /\ pool_reqs[1].first /\ pool_reqs[2].first
    /\ pool_reqs[1].server_id = pool_reqs[2].server_id
    /\ pool_reqs[1].engine = pool_reqs[2].engine
    /\ pool_hist.evicted = {}

\* C18: right after a pass of the health check the pools whose round-trip
\* failed are not registered and those whose round-trip succeeded are; the
\* registry never holds an evicted pool, so a request that gets its pool
\* after the eviction never gets the evicted one (it creates a new one); and
\* a request runs its query at most once, whether it failed or not.
C18_FailedPoolEvicted ==
    /\ pool_hist.checked.failed \cap pool_hist.checked.left = {}
    /\ pool_hist.checked.healthy \subseteq pool_hist.checked.left
    /\ \A k \in DOMAIN connection_pools :
           connection_pools[k].serial \notin pool_hist.evicted
    /\ \A i \in DOMAIN pool_reqs :
           /\ pool_reqs[i].pc = "got" => ~pool_reqs[i].stale
           /\ pool_reqs[i].attempts <= 1

\* a request that created a new pool under a key whose pool had been evicted
C18_Witness ==
    \E i \in DOMAIN pool_reqs :
        /\ pool_reqs[i].pc = "got" /\ pool_reqs[i].made
        /\ DictGet(pool_hist.evictions,
                   PoolKey(pool_reqs[i].server_id, pool_reqs[i].server), 0) >= 1

\* C19 (as stated): a bound takes effect before the queue holds every event
\* the callers record: with the worker stalled the queue never holds as many
\* as MaxEvents events, because a full queue drops the event or blocks its
\* caller.
C19_QueueBounded == Len(audit_queue) < MaxEvents

\* C20, what never happens: the k-th entry handed to persistence is the k-th
\* event enqueued, unchanged (enqueue order, each once); no recorded event is
\* lost on the way; and no caller of log_event is left waiting in put().
C20_HandedInOrder ==
    /\ \A k \in 1..Len(audit_hist.handed) :
           /\ audit_hist.handed[k].id = k
           /\ audit_hist.handed[k].audit_data = audit_hist.log[k]
    /\ Len(audit_hist.handed) + Len(audit_queue)
           + (IF worker.pc = "processing" THEN 1 ELSE 0) = audit_hist.n
    /\ audit_hist.blocked = 0

\* C20: with the worker scheduled fairly, every event enqueued by log_event is
\* eventually handed to persistence, exactly once and in enqueue order,
\* log_event never waits for it, and this also holds for the events that
\* follow one whose persistence failed.
C20_EveryEventHandedOnce ==
    /\ []C20_HandedInOrder
    /\ \A k \in 1..MaxEvents :
           (audit_hist.n >= k) ~> (Len(audit_hist.handed) >= k)

\* an event handed to persistence after the one before it failed to persist,
\* while another event was already waiting
C20_Witness ==
    /\ Len(audit_hist.handed) >= 2
    /\ ~audit_hist.handed[1].persisted
    /\ audit_hist.handed[2].persisted
    /\ Len(audit_queue) >= 1

\* C21 (as stated): every event handed to persistence whose risk score is
\* above the alert threshold, or that matches a suspicious pattern or the
\* privilege-escalation heuristic, carries is_suspicious = TRUE and has
\* triggered exactly one alert
C21_RiskyEventsFlaggedAndAlerted ==
    \A k \in 1..Len(audit_hist.handed) :
        LET h == audit_hist.handed[k]
            d == h.audit_data
        IN (\/ d.risk_score > AlertThreshold
            \/ MatchesSuspiciousPattern(d.action, d.severity,
                                        "large_result_set" \in d.details)
            \/ _check_privilege_escalation(d.action))
           => d.is_suspicious /\ h.alerts = 1

\* C22 (as stated): for every analysed query requires_approval is true when
\* the risk level is HIGH or CRITICAL, or the statement modifies data and
\* the environment is production, or the role is readonly and the statement
\* is not a SELECT
C22_ApprovalWheneverAConditionHolds ==
    (analyzer.pc # "input" /\ analyzer.result.valid) =>
        LET result == analyzer.result
        IN (\/ result.risk_level \in {"HIGH", "CRITICAL"}
            \/ /\ analyzer.environment = "production"
               /\ result.query_type \in {"INSERT", "UPDATE", "DELETE", "DROP",
                                         "TRUNCATE", "ALTER"}
            \/ analyzer.user_role = "readonly" /\ result.query_type # "SELECT")
           => result.requires_approval

\* an UPDATE or DELETE statement without a WHERE clause
UpdateOrDeleteWithoutWhere(query) ==
    /\ query # << >>
    /\ query[1].t = "word" /\ Lower(query[1].v) \in {"update", "delete"}
    /\ \A i \in 1..Len(query) : ~(query[i].t = "word" /\ Lower(query[i].v) = "where")

\* C23 (as stated): the analysis of an UPDATE or DELETE without WHERE has
\* risk_level HIGH or CRITICAL, whatever the role and the environment
C23_NoWhereIsHighRisk ==
    (analyzer.pc # "input" /\ UpdateOrDeleteWithoutWhere(analyzer.query)) =>
        analyzer.result.risk_level \in {"HIGH", "CRITICAL"}

\* C24 (as stated): two queries that differ only in the values of their
\* literals, in white space or comments, or in the case of their keywords
\* get the same query hash
C24_SameFingerprint ==
    analyzer.pc = "compared" => analyzer.query_hash = analyzer.other_hash

\* C25 (as stated): the plain SELECT * FROM users as analyze_query analyses
\* it ("nometa"), called by the readonly user on the production backend that
\* is active, permitted and answering, is analysed as LOW without approval,
\* gets an execution record with its query hash and returns success
C25_PlainSelectReturnsRows ==
    (/\ resp.via = "service" /\ resp.query = "nometa"
     /\ users[resp.user_id].role = "READONLY"
     /\ servers[resp.server_id].environment = "production"
     /\ resp.outcome \notin {"server_not_found", "user_not_found", "permission_denied",
                             "pool_creation_failed", "driver_error", "timeout"})
        => /\ resp.risk_level = "LOW" /\ ~resp.requires_approval
           /\ resp.success
           /\ resp.execution_id \in DOMAIN executions
           /\ executions[resp.execution_id].query_hash = QueryHashOf("nometa")

\* C26: the rule of every check is the role's rule when the role has one,
\* otherwise the rule of the rule type when there is one, otherwise the
\* default rule
C26_RuleByPrecedence ==
    rl_last.path # "none" =>
        rl_last.rule =
            (IF rl_last.user_role = "admin" THEN rules.role_admin
             ELSE IF rl_last.user_role = "analyst" THEN rules.role_analyst
             ELSE IF rl_last.user_role = "powerbi" THEN rules.role_powerbi
             ELSE IF rl_last.user_role = "readonly" THEN rules.role_readonly
             ELSE IF rl_last.rule_type = "auth" THEN rules.auth
             ELSE IF rl_last.rule_type = "query" THEN rules.query
             ELSE IF rl_last.rule_type = "api" THEN rules.api
             ELSE rules.default)

\* a check made for the rule type "query" by a role with a rule of its own
C26_Witness ==
    /\ rl_last.path = "window"
    /\ rl_last.rule_type = "query" /\ rl_last.user_role = "analyst"
    /\ rl_last.rule = rules.role_analyst /\ rl_last.rule # rules.query

\* a check made with neither a rule for the rule type nor a role
C26_WitnessDefault ==
    /\ rl_last.path = "window"
    /\ rl_last.rule_type = "reports" /\ rl_last.user_role = None
    /\ rl_last.rule = rules.default

\* what C27 says of a check that found the count below the rule's requests
UnderLimitOutcome ==
    /\ rl_last.allowed
    /\ rl_last.counted_after = rl_last.counted + 1
    /\ rl_last.remaining = Max(0, rl_last.requests - rl_last.counted_after)

\* C27 (as stated): every check that finds the identifier's count in the
\* window below the rule's requests allows the request, raises the count by
\* one and returns remaining = requests minus the new count
C27_UnderLimitAdmitted ==
    (rl_last.path # "none" /\ rl_last.counted < rl_last.requests)
        => UnderLimitOutcome

\* C27 (amended): the same of every check that finds neither the IP address
\* nor the user blocked, while the store is reachable
C27_UnderLimitAdmittedUnlessBlocked ==
    (/\ rl_last.path = "window" /\ rl_last.connected
     /\ rl_last.counted < rl_last.requests)
        => UnderLimitOutcome

\* the second request of a run under a limit of two, admitted with nothing left
C27_Witness ==
    /\ rl_last.path = "window" /\ rl_last.connected
    /\ rl_last.requests = 2 /\ rl_last.counted = 1
    /\ rl_last.allowed /\ rl_last.counted_after = 2 /\ rl_last.remaining = 0

\* C28 (as stated): at every check the window counts exactly the requests
\* admitted for the identifier during the last window_seconds
C28_WindowCountsAdmitted ==
    (rl_last.path = "window" /\ rl_last.connected)
        => rl_last.counted = rl_last.prior

\* the last answer is that of an execution on which the driver raised
DriverErrorAnswered ==
    /\ resp.via = "service" /\ resp.outcome = "driver_error"
    /\ resp.execution_id \in DOMAIN executions

ResultKeys(s) == {key \in DOMAIN s : key[1] = "query_result"}

\* C30: every entry of the result cache was written by a successfully
\* executed SELECT and nothing else is served from it: a step that puts an
\* entry under a result key, or changes one, is the execution of a statement
\* typed SELECT that succeeded, stored under the key of that statement and
\* holding the rows it returned; every result key of the store is the key of
\* an earlier successful SELECT; and every answer served from the cache
\* answers a SELECT, with success, after such an execution
C30_CacheHoldsOnlySelects ==
    /\ [][ \A key \in ResultKeys(store') :
              (key \notin DOMAIN store \/ store'[key] # store[key])
                  => /\ req.pc = "execute"
                     /\ req.analysis.query_type = "SELECT"
                     /\ key = ResultKey(req.analysis.query_hash, req.server_id,
                                        req.parameters)
                     /\ resp'.via = "service" /\ resp'.outcome = "ok"
                     /\ resp'.success /\ ~resp'.cached
                     /\ resp'.execution_id = req.execution_id
                     /\ executions'[req.execution_id].status = "SUCCESS"
                     /\ store'[key].val.data = resp'.data
                     /\ store'[key].val.columns = resp'.columns ]_vars
    /\ [](\A key \in ResultKeys(store) :
              /\ DictGet(last_exec, key, NoPrior).known
              /\ \E q \in Queries :
                    QueryHashOf(q) = key[2] /\ QueryTypeOf(q) = "SELECT")
    /\ []((resp.via = "service" /\ resp.cached)
              => /\ QueryTypeOf(resp.query) = "SELECT"
                 /\ resp.success /\ resp.error = NoError
                 /\ resp.prior.known
                 /\ resp.connects = 0)

\* the store holds the rows of a SELECT and the last answer was served from
\* that entry
C30_Witness ==
    /\ resp.via = "service" /\ resp.cached /\ resp.cache_gets = 1
    /\ QueryTypeOf(resp.query) = "SELECT"
    /\ \E key \in ResultKeys(store) :
          /\ key[3] = resp.server_id
          /\ store[key].val.data = resp.data /\ Len(resp.data) > 0

\* the in-memory blocks whose expiry time has passed
ExpiredIpBlock(ip) == ip \in DOMAIN blocked_ips /\ now >= blocked_ips[ip]
ExpiredUserBlock(user_id) ==
    user_id \in DOMAIN blocked_users /\ now >= blocked_users[user_id]

\* C31: once initialize() has started the cleanup task, every in-memory
\* block whose expiry time has passed is eventually gone from blocked_ips or
\* blocked_users; a round of the sweep removes exactly the blocks that have
\* expired and leaves every other block as it was
C31_ExpiredBlocksSwept ==
    /\ \A ip \in {ClientIp} :
          (sweeper.started /\ ExpiredIpBlock(ip)) ~> ~ExpiredIpBlock(ip)
    /\ \A user_id \in UserIds :
          (sweeper.started /\ ExpiredUserBlock(user_id)) ~> ~ExpiredUserBlock(user_id)
    /\ [][ (sweeper.started /\ sweeper'.started /\ rl_last' = rl_last /\ now' = now)
             => /\ \A ip \in DOMAIN blocked_ips :
                      IF now >= blocked_ips[ip]
                      THEN ip \notin DOMAIN blocked_ips'
                      ELSE ip \in DOMAIN blocked_ips'
                              /\ blocked_ips'[ip] = blocked_ips[ip]
                /\ \A user_id \in DOMAIN blocked_users :
                      IF now >= blocked_users[user_id]
                      THEN user_id \notin DOMAIN blocked_users'
                      ELSE user_id \in DOMAIN blocked_users'
                              /\ blocked_users'[user_id] = blocked_users[user_id] ]_vars

\* the last round of the sweep found the block of user 1 expired and removed it
C31_Witness ==
    /\ sweeper.started
    /\ 1 \in sweeper.expired_users /\ 1 \notin DOMAIN blocked_users

\* the step is a check_rate_limit call by the identity of the last call, which
\* was denied, made retry_after seconds after it; rl_last holds the last
\* call, so no other call lies in between
RetryStep ==
    /\ rl_last.path # "none" /\ ~rl_last.allowed
    /\ rl_last' # rl_last
    /\ rl_last'.at = rl_last.at + rl_last.retry_after
    /\ rl_last'.identifier = rl_last.identifier
    /\ rl_last'.ip_address = rl_last.ip_address
    /\ rl_last'.user_id = rl_last.user_id
    /\ rl_last'.rule_type = rl_last.rule_type
    /\ rl_last'.user_role = rl_last.user_role

\* C32 (as stated): retry_after is a sound hint for every denial of
\* check_rate_limit, by the window or by a block: the request the same
\* identity makes retry_after seconds after the denial, with no request in
\* between, is not denied
C32_RetryAfterSound ==
    [][RetryStep => rl_last'.allowed]_vars

\* a check that the sliding window denied left the window data of the
\* identifier as they were: the same buckets, counts and expiry
DeniedWindowKept ==
    (rl_last.path = "window" /\ ~rl_last.allowed) => rl_last.window_kept

\* C33 (as stated): a check that the sliding window denies leaves the stored
\* window data of the identifier unchanged, so denied requests never push
\* back the time at which the identifier is admitted again: a check that
\* finds nothing counted in the window is admitted
C33_DenialsNeverDelay ==
    /\ DeniedWindowKept
    /\ (rl_last.path # "none" /\ rl_last.counted = 0) => rl_last.allowed

\* C33 (amended): a check that the sliding window denies leaves the stored
\* window data of the identifier unchanged, so denied requests do not extend
\* the window; they delay the identifier only through the block that the
\* fifth violation sets: a check that finds nothing counted in the window is
\* admitted unless a block denies it
C33_DenialsDelayOnlyByBlock ==
    /\ DeniedWindowKept
    /\ (rl_last.path # "none" /\ rl_last.counted = 0 /\ ~rl_last.allowed)
           => rl_last.path \in {"ip_block", "user_block"}
    /\ (rl_last.path = "window" /\ rl_last.counted = 0) => rl_last.allowed

\* the window denied a request made after the write of the window data, left
\* the data as they were, and the denial set a block
C33_Witness ==
    /\ rl_last.path = "window" /\ ~rl_last.allowed /\ rl_last.window_kept
    /\ rl_last.at > 0 /\ rl_last.counted >= 1 /\ rl_last.sets_user_block

\* QueryStatus: the statuses in which a record is finished
TerminalStatuses == {"SUCCESS", "FAILED", "TIMEOUT", "CANCELLED"}

\* C34: terminal statuses are absorbing: once a record is SUCCESS, FAILED,
\* TIMEOUT or CANCELLED, no step of execute_query, its exception handler
\* included, and no call of the cancel endpoint changes its status
C34_TerminalStatusesAbsorb ==
    [][ \A id \in DOMAIN executions :
          executions[id].status \in TerminalStatuses
              => /\ id \in DOMAIN executions'
                 /\ executions'[id].status = executions[id].status ]_vars

\* the owner asked to cancel an execution that had ended in SUCCESS; the
\* endpoint answered 404 and the record is still SUCCESS
C34_Witness ==
    /\ resp.via = "cancel" /\ resp.status = 404
    /\ resp.execution_id \in DOMAIN executions
    /\ executions[resp.execution_id].user_id = resp.user_id
    /\ executions[resp.execution_id].status = "SUCCESS"

\* C35 (as stated): a query that is executing can be cancelled by its owner:
\* a call of the cancel endpoint by the owner, for the record of the query
\* that is executing on the backend, finds the record and moves it to
\* CANCELLED; and the endpoint changes no record that is not RUNNING or not
\* owned by the caller
C35_OwnerCancelsExecuting ==
    [][ /\ (/\ resp'.via = "cancel" /\ resp' # resp
            /\ req.pc = "execute"
            /\ resp'.execution_id = req.execution_id
            /\ resp'.user_id = req.user_id)
              => /\ resp'.status = 200
                 /\ executions'[req.execution_id].status = "CANCELLED"
        /\ (resp'.via = "cancel" /\ resp' # resp)
              => \A id \in DOMAIN executions :
                    ~(id = resp'.execution_id
                      /\ executions[id].status = "RUNNING"
                      /\ executions[id].user_id = resp'.user_id)
                        => executions'[id] = executions[id] ]_vars

\* the user holds a role that the backend admits: an administrator, a role
\* listed in the backend's allowed_roles or, when the list is empty, a role
\* admitted by default
MayUse(user_id, server_id) ==
    /\ user_id \in DOMAIN users /\ server_id \in DOMAIN servers
    /\ servers[server_id].is_active
    /\ \/ users[user_id].role = "ADMIN"
       \/ users[user_id].role \in servers[server_id].allowed_roles
       \/ /\ servers[server_id].allowed_roles = {}
          /\ \/ users[user_id].role \in {"ANALYST", "READONLY"}
             \/ /\ users[user_id].role = "POWERBI"
                /\ servers[server_id].environment # "production"

\* C36: a cached result is never returned to a user who lacks permission on
\* the backend it was cached for: every call that read the cache or was
\* answered from it had passed the backend lookup and the permission check,
\* also when another user filled the entry
C36_CacheOnlyAfterPermission ==
    (resp.via = "service" /\ (resp.cached \/ resp.cache_gets > 0))
        => MayUse(resp.user_id, resp.server_id)

\* user 1, whom backend 2 does not admit, asked for a statement whose result
\* the administrator's call had put into the cache for backend 2, and was
\* refused without a look into the cache
C36_Witness ==
    /\ resp.via = "service" /\ resp.user_id = 1 /\ resp.server_id = 2
    /\ resp.outcome = "permission_denied"
    /\ ~resp.cached /\ resp.cache_gets = 0 /\ Len(resp.data) = 0
    /\ \E key \in ResultKeys(store) :
          /\ key[2] = QueryHashOf(resp.query) /\ key[3] = 2
          /\ key[4] = ParamHash(resp.parameters)
    /\ \E id \in DOMAIN executions :
          executions[id].user_id = 2 /\ executions[id].server_id = 2
              /\ executions[id].status = "SUCCESS"

\* C37: a result cached for one (fingerprint, backend id, bound parameters)
\* triple is never returned for a request whose backend id or bound
\* parameters differ: every answer from the cache follows an execution, not
\* answered from the cache, that succeeded on the same backend with the same
\* fingerprint and the same parameters
C37_CacheKeyedByTriple ==
    (resp.via = "service" /\ resp.cached)
        => \E id \in DOMAIN executions :
              /\ id # resp.execution_id
              /\ executions[id].status = "SUCCESS" /\ ~executions[id].is_cached
              /\ executions[id].query_hash = QueryHashOf(resp.query)
              /\ executions[id].server_id = resp.server_id
              /\ executions[id].parameters = resp.parameters

\* the cache holds the result of the same statement for another backend or
\* other parameters; the request looked into the cache, was not answered
\* from it and ran on its own backend
C37_Witness ==
    /\ resp.via = "service" /\ resp.outcome = "ok"
    /\ resp.cache_gets = 1 /\ ~resp.cached /\ resp.connects = 1
    /\ \E key \in ResultKeys(store) :
          /\ key[2] = QueryHashOf(resp.query)
          /\ key[3] # resp.server_id \/ key[4] # ParamHash(resp.parameters)
          /\ store[key].val.data # resp.data

\* C38: every connection _execute_with_pool acquires is released on every
\* path: a call that is not between its first and its last statement holds
\* no connection and has released as many as it acquired, whether it ended
\* by success, driver error, unexpected error, a failed connect or the
\* timeout. stats.active_connections is never negative and equals the
\* number of connections held, except between pool.connect() and the
\* increment on the next line, where it is one short.
C38_ConnectionsReleased ==
    /\ stats.active_connections >= 0
    /\ \A i \in ConnIds :
          conns[i].pc \in {"idle", "scheduled", "finished"}
              => /\ conns[i].connection # "open"
                 /\ conns[i].released = conns[i].acquired
    /\ \A i \in ConnIds : conns[i].released <= conns[i].acquired
    /\ stats.active_connections
          = Cardinality(Held) - Cardinality({i \in ConnIds : conns[i].pc = "connected"})
    /\ Cardinality(Inside) <= 1

\* C38 witness: one call ran into a driver error and came back as timed out
\* with its connection released, and the other call holds a connection now.
C38_Witness ==
    /\ conns[1].pc = "idle" /\ conns[1].path = "driver_error"
    /\ conns[1].timed_out /\ conns[1].acquired = 1 /\ conns[1].released = 1
    /\ conns[2].pc = "counted" /\ conns[2].connection = "open"
    /\ stats.active_connections = 1

\* a step in which request i leaves _get_connection_pool without an engine
CreationFails(i) ==
    pool_reqs[i].pc = "loaded" /\ pool_reqs'[i].pc = "idle"

\* C39: the registry holds only engines whose creation round-trip
\* succeeded. A request whose creation fails leaves the registry and the
\* counters unchanged and ends without running its query; the key stays
\* unregistered, and a request that later gets an engine for an
\* unregistered key got it from a new creation, which registers it.
C39_OnlyCreatedPoolsRegistered ==
    /\ [](\A k \in DOMAIN connection_pools :
             /\ connection_pools[k] # NoEngine
             /\ DictGet(pool_hist.created, k, 0) >= 1)
    /\ [][\A i \in PoolReqIds :
            LET pool_key == PoolKey(pool_reqs[i].server_id, pool_reqs[i].server)
            IN /\ CreationFails(i)
                  => /\ connection_pools' = connection_pools
                     /\ stats' = stats
                     /\ pool_hist'.last_run = pool_hist.last_run
                     /\ pool_hist'.created = pool_hist.created
                     /\ ~PoolLookup(connection_pools', pool_key)
               /\ ( /\ pool_reqs[i].pc = "loaded" /\ pool_reqs'[i].pc = "got"
                    /\ ~PoolLookup(connection_pools, pool_key) )
                  => /\ PoolLookup(connection_pools', pool_key)
                     /\ connection_pools'[pool_key] = pool_reqs'[i].engine
                     /\ pool_reqs'[i].engine # NoEngine
                     /\ pool_hist'.created[pool_key]
                           = DictGet(pool_hist.created, pool_key, 0) + 1 ]_vars

\* C39 witness: a creation for a backend failed, and a later request for
\* the same backend created the pool, the only one ever created for it.
C39_Witness ==
    \E k \in DOMAIN connection_pools :
        /\ k \in pool_hist.refused
        /\ pool_hist.created[k] = 1
        /\ DictGet(pool_hist.evictions, k, 0) = 0
        /\ \E i \in PoolReqIds :
              /\ pool_reqs[i].pc = "got" /\ pool_reqs[i].made
              /\ PoolKey(pool_reqs[i].server_id, pool_reqs[i].server) = k

\* the event execute_query records for a query that ran without error:
\* query_executed, severity info, no risk flag in its details, and no
\* address, so that the check of unusual addresses is skipped
RoutineQueryEvent(e) ==
    /\ e.action = "query_executed" /\ e.severity = "info"
    /\ e.details = {} /\ e.ip_address = None

\* the events of the same user and action recorded before the k-th
EarlierSame(k) ==
    Cardinality({j \in 1..(k - 1) :
                    /\ audit_hist.log[j].action = audit_hist.log[k].action
                    /\ audit_hist.log[j].user_id = audit_hist.log[k].user_id})

\* C40 (as stated): the event of a routine successful query, recorded for a
\* user with fewer earlier events of that action than the repeated-action
\* threshold, is not marked suspicious, and handing it to persistence
\* triggers no security alert.
C40_RoutineQueryNotSuspicious ==
    /\ \A k \in 1..Len(audit_hist.log) :
          (RoutineQueryEvent(audit_hist.log[k]) /\ EarlierSame(k) < RapidActionLimit)
              => ~audit_hist.log[k].is_suspicious
    /\ \A k \in 1..Len(audit_hist.handed) :
          LET h == audit_hist.handed[k]
          IN (RoutineQueryEvent(h.audit_data) /\ EarlierSame(h.id) < RapidActionLimit)
                 => h.alerts = 0

C3_ExactlyOneAuditEvent ==
    resp.via = "service" => resp.audits = 1

\* C3 witness: a call that timed out on the backend has returned, having
\* enqueued one event.
C3_Witness ==
    resp.via = "service" /\ resp.outcome = "timeout" /\ resp.audits = 1

\* C4 (as stated): a request that the rate limiter denies is answered 429
\* after one audit event has been enqueued for it.
C4_DenialIsAudited ==
    resp.status = 429 => resp.audits = 1

C6_ApprovalNeverReachesBackend ==
    (resp.via = "service" /\ resp.requires_approval)
        => /\ resp.pool_gets = 0 /\ resp.connects = 0
           /\ resp.cache_gets = 0 /\ resp.cache_sets = 0

\* C6 witness: a call whose analysis reported requires_approval has returned.
C6_Witness ==
    /\ resp.via = "service" /\ resp.requires_approval
    /\ resp.outcome = "requires_approval" /\ resp.pool_gets = 0

\* C7 (as stated): a call whose analysis reports requires_approval leaves its
\* execution record in WAITING_APPROVAL, is not counted in failed_queries and
\* is not audited as query_failed.
C7_ApprovalIsDeferred ==
    (resp.via = "service" /\ resp.requires_approval)
        => /\ resp.execution_id \in DOMAIN executions
           /\ executions[resp.execution_id].status = "WAITING_APPROVAL"
           /\ resp.failed_delta = 0
           /\ resp.audit_action # "query_failed"

====
